---- MODULE Spec2Model ----
(***************************************************************************)
(* A model of the Kinesis Video Streams consumer library for Python:       *)
(*   - the fragment segmenter KvsConsumerLibrary.run                       *)
(*     (kinesis_video_streams_parser.py) together with the part of the     *)
(*     ebmlite parser it drives (decoding.py, core.py), at byte level;     *)
(*   - the thread-aware file ThreadAwareFile (ebmlite/threaded_file.py);   *)
(*   - the ebmlite Document and its elements (ebmlite/core.py);            *)
(*   - the encoders and decoders of ebmlite (encoding.py, decoding.py).    *)
(* The parts have their own specifications: Spec, SpecFile, SpecDoc and    *)
(* SpecCodec; SpecRead reads documents of files that may be cut short,     *)
(* SpecSchema declares the elements of a schema and SpecEq compares two    *)
(* elements.                                                               *)
(***************************************************************************)
EXTENDS Integers, Sequences, FiniteSets, TLC

VARIABLES
    \* ---- segmenter (KvsConsumerLibrary) ----
    prefix,          \* upstream bytes that precede the first fragment
    frags,           \* the MKV fragments the upstream StreamingBody holds
    pos,             \* number of bytes the chunk iterator has yielded so far
    chunk,           \* the chunk bound by the for statement
    chunk_buffer,    \* run's accumulating bytearray
    stop_get_media,  \* self._stop_get_media
    pc,              \* the worker's position in run
    parsed,          \* ebml_header_elements of the last parse (offsets)
    calls,           \* the callbacks invoked so far, in order
    err,             \* the exception in flight ("none" when there is none)
    escaped,         \* the exception that left run ("none" when none did)
    base,            \* history: bytes cut from the front of chunk_buffer
    ended,           \* history: how the for loop was left
    \* ---- ThreadAwareFile ----
    threads,         \* self.threads: each ident's stream (0: no entry)
    handles,         \* the io.FileIO objects opened so far
    ready,           \* self._ready (the Event's flag)
    tpc,             \* each thread's position in the method it runs
    top,             \* each thread's current operation and its argument
    tit,             \* each thread's dict iterator inside cleanup
    tres,            \* each thread's last outcome
    made,            \* the constructor's outcome ("new" before it ran)
    ctor,            \* the arguments of the constructor call under way
    \* ---- Document ----
    document,        \* the Document: its arguments and attributes
    source,          \* the byte source: its position, and whether closed
    elements,        \* the root elements the iteration has yielded
    iterator,        \* the generator of Document.__iter__
    got,             \* the last operation on the document and its result
    verified,        \* the outcome of Schema.verify on the same bytes
    \* ---- encoding.py / decoding.py ----
    call,            \* the encoder called, its value and its length argument
    out,             \* what the encoder returned, or the exception it raised
    back,            \* what the decoder made of the encoder's bytes
    \* ---- Schema and the equality of elements ----
    schema,          \* the Schema's registries and the children of each parent
    reply,           \* the last addElement call and what it returned or raised
    pair,            \* the two elements compared
    equal            \* what == gave for them ("none" before the comparison)

segVars == <<prefix, frags, pos, chunk, chunk_buffer, stop_get_media, pc,
             parsed, calls, err, escaped, base, ended>>
fileVars == <<threads, handles, ready, tpc, top, tit, tres, made, ctor>>
docVars == <<document, source, elements, iterator, got, verified>>
codecVars == <<call, out, back>>
schemaVars == <<schema, reply, pair, equal>>
vars == <<segVars, fileVars, docVars, codecVars, schemaVars>>

(***************************************************************************)
(* Bounds of the model.                                                    *)
(***************************************************************************)
MaxFragments == 3
MaxChunk == 2
FileLen == 1
MaxOpens == 3
MaxDocElements == 2
MaxLength == 9
MaxSmall == 3
MaxText == 2
MaxChildren == 2
MaxCut == 2
MaxDeclarations == 2
MaxPayload == 1

(***************************************************************************)
(* Element IDs the library names.                                          *)
(***************************************************************************)
EBML_ID == 440786851
SEGMENT_ID == 408125543
CLUSTER_ID == 524531317
SIMPLEBLOCK_ID == 163

None == -1

Min(a, b) == IF a < b THEN a ELSE b

\* the element of a one-element set: a value computed once and named
The(S) == CHOOSE v \in S : TRUE

RECURSIVE BigEndianTo(_, _)
\* the number the first n bytes make, most significant first
BigEndianTo(bytes, n) ==
    IF n = 0 THEN 0 ELSE BigEndianTo(bytes, n - 1) * 256 + bytes[n]

\* struct ">I" / ">Q" unpack of bytes right-justified with zeros
BigEndian(bytes) == BigEndianTo(bytes, Len(bytes))

\* BytesIO.read(n) at position p: short at the end of the data, never an error
StreamRead(data, p, n) == SubSeq(data, p + 1, Min(p + n, Len(data)))

decodeIntLength(byte) ==
    IF byte >= 128 THEN <<1, byte % 128>>
    ELSE IF byte >= 64 THEN <<2, byte % 64>>
    ELSE IF byte >= 32 THEN <<3, byte % 32>>
    ELSE IF byte >= 16 THEN <<4, byte % 16>>
    ELSE IF byte >= 8 THEN <<5, byte % 8>>
    ELSE IF byte >= 4 THEN <<6, byte % 4>>
    ELSE IF byte >= 2 THEN <<7, byte % 2>>
    ELSE <<8, 0>>

\* 0 stands for the IOError('Invalid length for ID')
decodeIDLength(byte) ==
    IF byte >= 128 THEN 1
    ELSE IF byte >= 64 THEN 2
    ELSE IF byte >= 32 THEN 3
    ELSE IF byte >= 16 THEN 4
    ELSE 0

\* st: "ok", "TypeErrorOrd" (ord() of the empty read at end of data), "IOError"
readElementID(data, p) ==
    IF p >= Len(data) THEN [st |-> "TypeErrorOrd", eid |-> 0, length |-> 0]
    ELSE LET ch == data[p + 1]
             length == decodeIDLength(ch)
         IN IF length = 0 THEN [st |-> "IOError", eid |-> 0, length |-> 0]
            ELSE [st |-> "ok",
                  eid |-> IF length > 1 THEN BigEndian(StreamRead(data, p, length))
                          ELSE ch,
                  length |-> length]

\* A Python int in the range of struct's ">Q" and ">q" formats is held as the
\* eight bytes struct packs it to, so that no value loses its width.
Pad(n, byte) == [i \in 1..n |-> byte]

\* bytes.rjust(n, pad)
rjust(bytes, n, pad) ==
    IF Len(bytes) >= n THEN bytes ELSE Pad(n - Len(bytes), pad) \o bytes

\* size = None, among the packed integers
Unknown == <<>>

\* (2**(7*length)) - 1, packed, for each length
AllOnes ==
    [length \in 1..8 |->
        Pad(8 - length, 0) \o <<(2 ^ (8 - length)) - 1>> \o Pad(length - 1, 255)]

\* _struct_uint64_unpack of the eight bytes of a packed integer
unpack(q) ==
    ((((((q[1] * 256 + q[2]) * 256 + q[3]) * 256 + q[4]) * 256 + q[5]) * 256
      + q[6]) * 256 + q[7]) * 256 + q[8]

\* the size is the packed integer, or Unknown
readElementSize(data, p) ==
    IF p >= Len(data) THEN [st |-> "TypeErrorOrd", size |-> Unknown, length |-> 0]
    ELSE LET dl == decodeIntLength(data[p + 1])
             length == dl[1]
             size == IF length > 1
                     THEN rjust(<<dl[2]>> \o StreamRead(data, p + 1, length - 1),
                                8, 0)
                     ELSE <<0, 0, 0, 0, 0, 0, 0, dl[2]>>
         IN [st |-> "ok",
             size |-> IF size = AllOnes[length] THEN Unknown ELSE size,
             length |-> length]

(***************************************************************************)
(* encoding.py: the encoders, over packed integers and byte strings.       *)
(***************************************************************************)
RECURSIVE PackBytes(_, _)
\* the low k bytes of the two's complement of n, most significant first
PackBytes(n, k) ==
    IF k = 0 THEN <<>> ELSE PackBytes(n \div 256, k - 1) \o <<n % 256>>

\* _struct_uint64.pack(n) and _struct_int64.pack(n) of an int of few bits
pack(n) == PackBytes(n, 8)

RECURSIVE lstrip(_, _)
\* bytes.lstrip(pad)
lstrip(bytes, pad) ==
    IF bytes # <<>> /\ bytes[1] = pad THEN lstrip(Tail(bytes), pad) ELSE bytes

\* bytes.ljust(n, pad)
ljust(bytes, n, pad) ==
    IF Len(bytes) >= n THEN bytes ELSE bytes \o Pad(n - Len(bytes), pad)

\* val[:length], length >= 0
Cut(val, length) == SubSeq(val, 1, Min(length, Len(val)))

\* a <= b of two packed unsigned integers
LessEq(a, b) ==
    \/ a = b
    \/ \E i \in 1..8 : a[i] < b[i] /\ \A j \in 1..(i - 1) : a[j] = b[j]

RECURSIVE ByteOr(_, _)
ByteOr(x, y) ==
    IF x = 0 THEN y
    ELSE IF y = 0 THEN x
    ELSE 2 * ByteOr(x \div 2, y \div 2) + (IF x % 2 = 1 \/ y % 2 = 1 THEN 1 ELSE 0)

\* a | b of two packed integers
BitOr(a, b) == [i \in 1..8 |-> ByteOr(a[i], b[i])]

\* index 0 of the list is element 1 of the sequence
LENGTH_PREFIXES ==
    << pack(0),
       pack(128),                      \* 0x80
       pack(16384),                    \* 0x4000
       pack(2097152),                  \* 0x200000
       pack(268435456),                \* 0x10000000
       <<0, 0, 0, 8, 0, 0, 0, 0>>,     \* 0x0800000000
       <<0, 0, 4, 0, 0, 0, 0, 0>>,     \* 0x040000000000
       <<0, 2, 0, 0, 0, 0, 0, 0>>,     \* 0x02000000000000
       <<1, 0, 0, 0, 0, 0, 0, 0>> >>   \* 0x0100000000000000

\* getLength with its first bound one too high
getLengthOffByOne(val) ==
    IF LessEq(val, pack(127)) THEN 1
    ELSE IF LessEq(val, pack(16382)) THEN 2
    ELSE IF LessEq(val, pack(2097150)) THEN 3
    ELSE IF LessEq(val, pack(268435454)) THEN 4
    ELSE IF LessEq(val, <<0, 0, 0, 7, 255, 255, 255, 254>>) THEN 5
    ELSE IF LessEq(val, <<0, 0, 3, 255, 255, 255, 255, 254>>) THEN 6
    ELSE IF LessEq(val, <<0, 1, 255, 255, 255, 255, 255, 254>>) THEN 7
    ELSE 8

getLength(val) ==
    IF LessEq(val, pack(126)) THEN 1
    ELSE IF LessEq(val, pack(16382)) THEN 2
    ELSE IF LessEq(val, pack(2097150)) THEN 3
    ELSE IF LessEq(val, pack(268435454)) THEN 4
    ELSE IF LessEq(val, <<0, 0, 0, 7, 255, 255, 255, 254>>) THEN 5      \* 34359738366
    ELSE IF LessEq(val, <<0, 0, 3, 255, 255, 255, 255, 254>>) THEN 6    \* 4398046511102
    ELSE IF LessEq(val, <<0, 1, 255, 255, 255, 255, 255, 254>>) THEN 7  \* 562949953421310
    ELSE 8

\* what an encoder returns, or the exception it raises
Returns(bytes) == [st |-> "ok", bytes |-> bytes]
Raises(kind) == [st |-> kind, bytes |-> <<>>]

encodeUInt(val, length) ==
    LET stripped == lstrip(val, 0)
        packed == IF stripped = <<>> THEN <<0>> ELSE stripped
    IN IF length = None THEN Returns(packed)
       ELSE IF Len(packed) > length THEN Raises("ValueError")
       ELSE Returns(rjust(packed, length, 0))

\* LENGTH_PREFIXES[length] raises IndexError past the list, made a ValueError
encodeSize(val, length) ==
    IF val = Unknown
    THEN Returns(Pad(IF length = None THEN 1 ELSE length, 255))
    ELSE LET len == IF length = None THEN getLength(val) ELSE length
         IN IF len > 8 THEN Raises("ValueError")
            ELSE encodeUInt(BitOr(val, LENGTH_PREFIXES[len + 1]), len)

\* encodeId without the check of its length argument
encodeIdUnchecked(eid, length) == encodeUInt(eid, length)

encodeId(eid, length) ==
    IF length # None /\ (length < 1 \/ length > 4) THEN Raises("ValueError")
    ELSE encodeUInt(eid, length)

encodeInt(val, length) ==
    LET pad == IF val[1] < 128 THEN 0 ELSE 255
        stripped == lstrip(val, pad)
        kept == IF stripped = <<>> THEN <<pad>> ELSE stripped
        packed == IF pad = 0
                  THEN IF kept[1] >= 128 THEN <<pad>> \o kept ELSE kept
                  ELSE IF kept[1] < 128 THEN <<pad>> \o kept ELSE kept
    IN IF length = None THEN Returns(packed)
       ELSE IF Len(packed) > length THEN Raises("ValueError")
       ELSE Returns(rjust(packed, length, pad))

\* the platform's float size: sys.maxsize > 2147483647
DEFAULT_FLOAT_SIZE == 8

\* _struct_float32.pack and _struct_float64.pack of the floats of the model
float32_pack(val) ==
    IF val = "0.0" THEN Returns(<<0, 0, 0, 0>>)
    ELSE IF val = "1.5" THEN Returns(<<63, 192, 0, 0>>)
    ELSE IF val = "0.1" THEN Returns(<<61, 204, 204, 205>>)
    ELSE Raises("OverflowError")
float64_pack(val) ==
    IF val = "0.0" THEN Returns(<<0, 0, 0, 0, 0, 0, 0, 0>>)
    ELSE IF val = "1.5" THEN Returns(<<63, 248, 0, 0, 0, 0, 0, 0>>)
    ELSE IF val = "0.1" THEN Returns(<<63, 185, 153, 153, 153, 153, 153, 154>>)
    ELSE Returns(<<126, 55, 228, 60, 136, 0, 117, 156>>)

encodeFloat(val, length) ==
    IF length = None /\ val = "0.0" THEN Returns(<<>>)
    ELSE LET len == IF length = None THEN DEFAULT_FLOAT_SIZE ELSE length
         IN IF len = 0 THEN Returns(<<>>)
            ELSE IF len = 4 THEN float32_pack(val)
            ELSE IF len = 8 THEN float64_pack(val)
            ELSE Raises("ValueError")

\* encodeBinary that hands back data longer than the length
encodeBinaryUnchecked(val, length) ==
    IF length = None THEN Returns(val) ELSE Returns(ljust(val, length, 0))

encodeBinary(val, length) ==
    IF length = None THEN Returns(val)
    ELSE IF Len(val) <= length THEN Returns(ljust(val, length, 0))
    ELSE Raises("ValueError")

\* str.encode('ascii', 'replace') of one code point
ascii_replace(cp) == IF cp < 128 THEN cp ELSE 63

\* the translation table: bytes 32..126 stay, every other becomes "?"
STRING_CHARACTERS(byte) == IF byte >= 32 /\ byte <= 126 THEN byte ELSE 63

encodeString(val, length) ==
    LET encoded == [i \in 1..Len(val) |-> ascii_replace(val[i])]
        cut == IF length # None THEN Cut(encoded, length) ELSE encoded
    IN encodeBinary([i \in 1..Len(cut) |-> STRING_CHARACTERS(cut[i])], length)

RECURSIVE utf_8(_)
\* str.encode('utf_8') of code points below 0x800
utf_8(val) ==
    IF val = <<>> THEN <<>>
    ELSE (IF Head(val) < 128 THEN <<Head(val)>>
          ELSE <<192 + (Head(val) \div 64), 128 + (Head(val) % 64)>>)
         \o utf_8(Tail(val))

encodeUnicode(val, length) ==
    LET encoded == utf_8(val)
    IN encodeBinary(IF length # None THEN Cut(encoded, length) ELSE encoded,
                    length)

\* val - datetime(2001, 1, 1) is the timedelta val.days, .seconds, .microseconds
encodeDate(val, length) ==
    IF length # None /\ length # 8 THEN Raises("ValueError")
    ELSE encodeInt(pack((val.microseconds
                         + ((val.seconds + (val.days * 86400)) * 1000000))
                        * 1000), 8)

(***************************************************************************)
(* The schema: the element types the library names (EBML, Segment,         *)
(* Cluster, SimpleBlock), the EBML header's EBMLVersion and the global     *)
(* Void, nested EBML > EBMLVersion | Segment > Cluster > SimpleBlock.      *)
(***************************************************************************)
EBMLVERSION_ID == 17030
VOID_ID == 236

SchemaElements == {EBML_ID, EBMLVERSION_ID, VOID_ID, SEGMENT_ID, CLUSTER_ID,
                   SIMPLEBLOCK_ID}
MasterElements == {EBML_ID, SEGMENT_ID, CLUSTER_ID}
SchemaGlobals == {VOID_ID}
Children(eid) ==
    IF eid = EBML_ID THEN {EBMLVERSION_ID}
    ELSE IF eid = SEGMENT_ID THEN {CLUSTER_ID}
    ELSE IF eid = CLUSTER_ID THEN {SIMPLEBLOCK_ID}
    ELSE {}

\* a schema that takes an id it lacks for a binary element
ElementTypeLenient(eid) ==
    IF eid \in {EBML_ID, SEGMENT_ID, CLUSTER_ID} THEN "MasterElement"
    ELSE IF eid = 17030 THEN "UIntegerElement"
    ELSE IF eid = 236 THEN "VoidElement"
    ELSE "BinaryElement"

\* the class schema.elements[eid] derives from; UnknownElement on a KeyError
ElementType(eid) ==
    IF eid \in MasterElements THEN "MasterElement"
    ELSE IF eid = EBMLVERSION_ID THEN "UIntegerElement"
    ELSE IF eid = VOID_ID THEN "VoidElement"
    ELSE IF eid \in SchemaElements THEN "BinaryElement"
    ELSE "UnknownElement"

\* el.precache: True for the numeric types
precache(eid) == ElementType(eid) = "UIntegerElement"

isValidChild(parent, elId) ==
    IF Children(parent) = {} THEN FALSE
    ELSE elId \in (Children(parent) \cup SchemaGlobals)

\* an exception leaving the parse, the stream left at position tell
Raise(kind, tell) == [st |-> kind, id |-> 0, offset |-> 0, size |-> 0,
                      payloadOffset |-> 0, next |-> 0, tell |-> tell]

RECURSIVE parseElement(_, _, _)
RECURSIVE MasterSize(_, _, _, _)

\* The size property of a master element read with size None: walk the
\* children (parsed with nocache=True) until an invalid one or the end of the
\* data. st "ok" with the size end - payloadOffset, or the exception raised;
\* tell is where the walk leaves the stream.
MasterSize(data, parent, payloadOffset, p) ==
    The({ IF r.st = "TypeErrorOrd"
          THEN [st |-> "ok", size |-> p - payloadOffset, tell |-> r.tell]
          ELSE IF r.st # "ok" THEN [st |-> r.st, size |-> 0, tell |-> r.tell]
          ELSE IF isValidChild(parent, r.id)
               THEN MasterSize(data, parent, payloadOffset, r.next)
               ELSE [st |-> "ok", size |-> p - payloadOffset, tell |-> r.tell]
          : r \in {parseElement(data, p, TRUE)} })

\* where the stream is once readElementID has read at p
AfterId(data, p) ==
    IF p >= Len(data) THEN p
    ELSE Min(p + decodeIDLength(data[p + 1]), Len(data))

RECURSIVE ElementOf(_, _, _, _, _, _)
\* the rest of parseElement, once the id i and the size are read: the
\* payload is read when the type is precached, and a master element of
\* size None walks its children
ElementOf(data, p, nocache, i, size, slength) ==
    LET payloadOffset == p + i.length + slength
        afterSize == Min(Min(p + i.length, Len(data)) + slength, Len(data))
        \* el._value = el.parse(stream, el.size)
        afterValue == IF precache(i.eid) /\ ~nocache
                      THEN IF size = None THEN Len(data)
                           ELSE Min(afterSize + size, Len(data))
                      ELSE afterSize
    IN IF size # None
       THEN [st |-> "ok", id |-> i.eid, offset |-> p, size |-> size,
             payloadOffset |-> payloadOffset, next |-> payloadOffset + size,
             tell |-> afterValue]
       ELSE IF i.eid \notin MasterElements THEN Raise("TypeError", afterValue)
       ELSE The({ IF sz.st # "ok" THEN Raise(sz.st, sz.tell)
                  ELSE [st |-> "ok", id |-> i.eid, offset |-> p,
                        size |-> sz.size, payloadOffset |-> payloadOffset,
                        next |-> payloadOffset + sz.size, tell |-> sz.tell]
                  : sz \in {MasterSize(data, i.eid, payloadOffset,
                                       payloadOffset)} })

\* MasterElement.parseElement with the stream at position p: the element
\* read, the offset of the next one (payloadOffset + el.size) and the
\* position the stream is left at, or the exception raised.
parseElement(data, p, nocache) ==
    The({ IF i.st = "TypeErrorOrd" THEN Raise(i.st, p)
          ELSE IF i.st # "ok" THEN Raise(i.st, p + 1)
          ELSE IF w.st # "ok" THEN Raise(w.st, AfterId(data, p))
          ELSE ElementOf(data, p, nocache, i,
                         \* the size as the int the parser computes with
                         IF w.size = Unknown THEN None ELSE unpack(w.size),
                         w.length)
          : i \in {readElementID(data, p)},
            w \in {readElementSize(data, AfterId(data, p))} })

RECURSIVE DocumentIter(_, _, _)
\* Document.__iter__ from position p: the root elements yielded, or the
\* exception that ends the iteration (the end of the data ends it quietly).
DocumentIter(data, p, acc) ==
    The({ IF r.st = "TypeErrorOrd" THEN [st |-> "ok", els |-> acc]
          ELSE IF r.st # "ok" THEN [st |-> r.st, els |-> acc]
          ELSE DocumentIter(data, r.next, Append(acc, r))
          : r \in {parseElement(data, p, FALSE)} })

\* Schema.loads(data): a Document over BytesIO(data) with headers=True, so
\* payloadOffset stays at the start; its constructor swallows every error.
SchemaLoads(data) == DocumentIter(data, 0, <<>>)

SelectEbml(els) == SelectSeq(els, LAMBDA e : e.id = EBML_ID)

\* _get_ebml_header_elements(schema.loads(data)): st and the headers' offsets
get_ebml_header_elements(data) ==
    The({ [st |-> d.st,
           offsets |-> [k \in 1..Len(SelectEbml(d.els)) |->
                           SelectEbml(d.els)[k].offset]]
          : d \in {SchemaLoads(data)} })

(***************************************************************************)
(* The upstream byte stream: an optional run of bytes before the first     *)
(* EBML header, then whole fragments. A fragment is an EBML header element *)
(* followed by a Segment, of unknown size (holding a Cluster of unknown    *)
(* size with one SimpleBlock) or of known size; its last byte tells the    *)
(* fragments of a stream apart.                                            *)
(***************************************************************************)
EbmlIdBytes == <<26, 69, 223, 163>>
SegmentIdBytes == <<24, 83, 128, 103>>
ClusterIdBytes == <<31, 67, 182, 117>>

Fragment(shape, k) ==
    IF shape = "unknown_size"
    THEN EbmlIdBytes \o <<128>> \o SegmentIdBytes \o <<255>>
         \o ClusterIdBytes \o <<255>> \o <<163, 129, k>>
    ELSE EbmlIdBytes \o <<128>> \o SegmentIdBytes \o <<131>> \o <<163, 129, k>>

Shapes == {"unknown_size", "known_size"}

\* nothing; an element of an id the schema lacks; a byte that is no id (the
\* parse raises IOError); a SimpleBlock of unknown size (it raises TypeError)
Prefixes == {<<>>, <<129, 129, 0>>, <<0>>, <<163, 255>>}

RECURSIVE Concat(_)
Concat(ss) == IF ss = <<>> THEN <<>> ELSE Head(ss) \o Concat(Tail(ss))

Input == prefix \o Concat(frags)

stream_name == "stream"

\* Python's b[i:j] for 0 <= i
Slice(b, i, j) == SubSeq(b, i + 1, Min(j, Len(b)))

NoCall == [cb |-> "none", name |-> "", bytes |-> <<>>, f0 |-> 0, f1 |-> 0,
           base |-> 0, pulled |-> 0, err |-> "none"]

SegInit ==
    /\ prefix \in Prefixes
    /\ \E shape \in Shapes, n \in 0..MaxFragments :
           frags = [k \in 1..n |-> Fragment(shape, k)]
    /\ pos = 0
    /\ chunk = <<>>
    /\ chunk_buffer = <<>>
    /\ stop_get_media = FALSE
    /\ pc = "pull"
    /\ parsed = <<>>
    /\ calls = <<>>
    /\ err = "none"
    /\ escaped = "none"
    /\ base = 0
    /\ ended = "no"

\* The sizes the next chunk may have: up to MaxChunk bytes, or all that is left.
ChunkSizes == {n \in 1..(Len(Input) - pos) : n <= MaxChunk \/ n = Len(Input) - pos}

\* stop_thread(), called from any other thread
stop_thread ==
    /\ UNCHANGED <<fileVars, docVars, codecVars, schemaVars>>
    /\ ~stop_get_media
    /\ stop_get_media' = TRUE
    /\ UNCHANGED <<prefix, frags, pos, chunk, chunk_buffer, pc, parsed, calls,
                   err, escaped, base, ended>>

\* for chunk in kvs_streaming_buffer: the iterator yields the next chunk
PullChunk ==
    /\ UNCHANGED <<fileVars, docVars, codecVars, schemaVars>>
    /\ pc = "pull"
    /\ \E n \in ChunkSizes :
           /\ chunk' = SubSeq(Input, pos + 1, pos + n)
           /\ pos' = pos + n
    /\ pc' = "check"
    /\ UNCHANGED <<prefix, frags, chunk_buffer, stop_get_media, parsed, calls,
                   err, escaped, base, ended>>

\* ... or is exhausted: control leaves the loop for the completion call
PullExhausted ==
    /\ UNCHANGED <<fileVars, docVars, codecVars, schemaVars>>
    /\ pc = "pull"
    /\ pos = Len(Input)
    /\ pc' = "complete"
    /\ ended' = "exhausted"
    /\ UNCHANGED <<prefix, frags, pos, chunk, chunk_buffer, stop_get_media,
                   parsed, calls, err, escaped, base>>

\* ... or the read from upstream raises
PullRaises ==
    /\ UNCHANGED <<fileVars, docVars, codecVars, schemaVars>>
    /\ pc = "pull"
    /\ err' = "read"
    /\ pc' = "except"
    /\ ended' = "raised"
    /\ UNCHANGED <<prefix, frags, pos, chunk, chunk_buffer, stop_get_media,
                   parsed, calls, escaped, base>>

\* if self._stop_get_media: break -- and break leaves the loop for the
\* statement after it, the completion call; else chunk_buffer.extend(chunk)
CheckStop ==
    /\ UNCHANGED <<fileVars, docVars, codecVars, schemaVars>>
    /\ pc = "check"
    /\ IF stop_get_media
       THEN /\ pc' = "complete"
            /\ ended' = "break"
            /\ UNCHANGED chunk_buffer
       ELSE /\ chunk_buffer' = chunk_buffer \o chunk
            /\ pc' = "parse"
            /\ UNCHANGED ended
    /\ UNCHANGED <<prefix, frags, pos, chunk, stop_get_media, parsed, calls,
                   err, escaped, base>>

\* len(ebml_header_elements) > 1
FragmentComplete(offsets) == Len(offsets) > 1

\* schema.loads(chunk_buffer), _get_ebml_header_elements, and the test for a
\* second header; chunk_read_count is written and never read
ParseBuffer ==
    /\ UNCHANGED <<fileVars, docVars, codecVars, schemaVars>>
    /\ pc = "parse"
    /\ LET r == get_ebml_header_elements(chunk_buffer)
       IN IF r.st # "ok"
          THEN /\ err' = r.st
               /\ pc' = "except"
               /\ ended' = "raised"
               /\ UNCHANGED parsed
          ELSE /\ parsed' = r.offsets
               /\ pc' = IF FragmentComplete(r.offsets) THEN "deliver" ELSE "pull"
               /\ UNCHANGED <<err, ended>>
    /\ UNCHANGED <<prefix, frags, pos, chunk, chunk_buffer, stop_get_media,
                   calls, escaped, base>>

\* the slice with its end left open / with its start at the buffer's
FragmentBytesToEnd(buffer, first, second) == SubSeq(buffer, first + 1, Len(buffer))
FragmentBytesFromStart(buffer, first, second) == SubSeq(buffer, 1, second)

\* chunk_buffer[first_ebml_header_offset : second_ebml_header_offset]
FragmentBytes(buffer, first, second) == Slice(buffer, first, second)

\* the buffer left whole
RemainderUncut(buffer, second) == buffer

\* chunk_buffer[second_ebml_header_offset : ]
Remainder(buffer, second) == Slice(buffer, second, Len(buffer))

\* the fragment is cut out, parsed again (loads does not raise) and handed to
\* on_fragment_arrived, which returns or raises
DeliverFragment ==
    /\ UNCHANGED <<fileVars, docVars, codecVars, schemaVars>>
    /\ pc = "deliver"
    /\ calls' = Append(calls,
                 [NoCall EXCEPT !.cb = "fragment", !.name = stream_name,
                     !.bytes = FragmentBytes(chunk_buffer, parsed[1], parsed[2]),
                     !.f0 = parsed[1], !.f1 = parsed[2],
                     !.base = base, !.pulled = pos])
    /\ \E raises \in BOOLEAN :
           IF raises
           THEN /\ err' = "callback"
                /\ pc' = "except"
                /\ ended' = "raised"
           ELSE /\ pc' = "trim"
                /\ UNCHANGED <<err, ended>>
    /\ UNCHANGED <<prefix, frags, pos, chunk, chunk_buffer, stop_get_media,
                   parsed, escaped, base>>

\* the delivered fragment is cut from the buffer; the next chunk is awaited
TrimBuffer ==
    /\ UNCHANGED <<fileVars, docVars, codecVars, schemaVars>>
    /\ pc = "trim"
    /\ chunk_buffer' = Remainder(chunk_buffer, parsed[2])
    /\ base' = base + parsed[2]
    /\ pc' = "pull"
    /\ UNCHANGED <<prefix, frags, pos, chunk, stop_get_media, parsed, calls,
                   err, escaped, ended>>

\* run ending without the completion call
StreamCompleteSkipped ==
    /\ UNCHANGED <<fileVars, docVars, codecVars, schemaVars>>
    /\ pc = "complete"
    /\ pc' = "done"
    /\ UNCHANGED <<prefix, frags, pos, chunk, chunk_buffer, stop_get_media,
                   parsed, calls, err, escaped, base, ended>>

\* self.on_read_stream_complete_callback(self.stream_name), inside the try
StreamComplete ==
    /\ UNCHANGED <<fileVars, docVars, codecVars, schemaVars>>
    /\ pc = "complete"
    /\ calls' = Append(calls, [NoCall EXCEPT !.cb = "complete",
                                             !.name = stream_name])
    /\ \E raises \in BOOLEAN :
           IF raises
           THEN /\ err' = "complete_callback"
                /\ pc' = "except"
           ELSE /\ pc' = "done"
                /\ UNCHANGED err
    /\ UNCHANGED <<prefix, frags, pos, chunk, chunk_buffer, stop_get_media,
                   parsed, escaped, base, ended>>

\* an except clause that swallows the exception
StreamExceptionSwallowed ==
    /\ UNCHANGED <<fileVars, docVars, codecVars, schemaVars>>
    /\ pc = "except"
    /\ pc' = "done"
    /\ UNCHANGED <<prefix, frags, pos, chunk, chunk_buffer, stop_get_media,
                   parsed, calls, err, escaped, base, ended>>

\* except Exception as err: self.on_read_stream_exception(self.stream_name, err)
\* the handler's own exception leaves run
StreamException ==
    /\ UNCHANGED <<fileVars, docVars, codecVars, schemaVars>>
    /\ pc = "except"
    /\ calls' = Append(calls, [NoCall EXCEPT !.cb = "exception",
                                             !.name = stream_name, !.err = err])
    /\ \E raises \in BOOLEAN :
           escaped' = IF raises THEN "exception_callback" ELSE escaped
    /\ pc' = "done"
    /\ UNCHANGED <<prefix, frags, pos, chunk, chunk_buffer, stop_get_media,
                   parsed, err, base, ended>>

SegNext ==
    \/ stop_thread
    \/ PullChunk
    \/ PullExhausted
    \/ PullRaises
    \/ CheckStop
    \/ ParseBuffer
    \/ DeliverFragment
    \/ TrimBuffer
    \/ StreamComplete
    \/ StreamException


(***************************************************************************)
(* ThreadAwareFile. Threads are known by their ident. self.threads is a    *)
(* dict from ident to stream; a stream is known by the order it was opened *)
(* in, which is also the dict's insertion order. A key iterator (the       *)
(* number of entries it saw when created, and the entry it stands at)      *)
(* raises RuntimeError on its next step once that number has changed.      *)
(***************************************************************************)
\* the constructing thread and one more
Idents == {1, 2}

\* one key for every thread
SharedIdent(t) == 1

\* currentThread().ident
CurrentIdent(t) == t

\* ident in self.threads (0: no entry)
InThreads(ident) == threads[ident] # 0
Keys == {i \in Idents : InThreads(i)}
\* len(self.threads)
Used == Cardinality(Keys)
HoldsClosed == \E i \in Keys : handles[threads[i]].closed

NoOp == [op |-> "none", arg |-> 0, fp |-> 0, exc |-> "none", snap |-> {}]
NoIter == [used |-> 0, at |-> 0]
Opened == [closed |-> FALSE, pos |-> 0]
Closed == [closed |-> TRUE, pos |-> 0]

\* the mode argument, as the set of its characters
Modes == {{"r", "b"}, {"w"}, {"r", "+"}, {"a", "b"}}
\* how the caller passes it: args[1], mode=..., or not at all
Passings == {"positional", "keyword", "omitted"}
NoArgs == [mode |-> {}, passing |-> "none"]

\* a call ThreadAwareFile(name[, mode]) about to run, made by thread 1
FileInit ==
    /\ threads = [i \in Idents |-> 0]
    /\ handles = <<>>
    /\ ready = TRUE
    /\ tpc = [t \in Idents |-> "idle"]
    /\ top = [t \in Idents |-> NoOp]
    /\ tit = [t \in Idents |-> NoIter]
    /\ tres = [t \in Idents |-> "none"]
    /\ made = "new"
    /\ \E mode \in Modes, passing \in Passings :
           ctor = [mode |-> IF passing = "omitted" THEN {} ELSE mode,
                   passing |-> passing]

\* mode = args[1] if len(args) > 1 else 'r'
CheckedMode(args) == IF args.passing = "positional" THEN args.mode ELSE {"r"}
\* 'a' in mode or 'w' in mode or '+' in mode
WriteMode(mode) == mode \cap {"a", "w", "+"} # {}

\* __init__: the mode check, then self._ready.set(), self.threads = {} and
\* getThreadStream(), which opens the constructing thread's stream
ThreadAwareFileInit ==
    /\ UNCHANGED <<segVars, docVars, codecVars, schemaVars>>
    /\ made = "new"
    /\ IF WriteMode(CheckedMode(ctor))
       THEN /\ made' = "IOError"
            /\ UNCHANGED <<threads, handles>>
       ELSE /\ made' = "ok"
            /\ handles' = Append(handles, Opened)
            /\ threads' = [threads EXCEPT ![CurrentIdent(1)] = Len(handles) + 1]
    /\ ctor' = NoArgs
    /\ UNCHANGED <<ready, tpc, top, tit, tres>>

\* the method returns ("ok") or raises
Finish(t, st) ==
    /\ tpc' = [tpc EXCEPT ![t] = "idle"]
    /\ top' = [top EXCEPT ![t] = NoOp]
    /\ tres' = [tres EXCEPT ![t] = st]

\* a thread calls read(n), seek(offset), tell() or close(): each begins with
\* getThreadStream(); or closeAll() or cleanup(); or asks closed; or calls
\* truncate(), write() or writelines()
Begin(t) ==
    /\ UNCHANGED <<segVars, docVars, codecVars, schemaVars, made, ctor>>
    /\ made = "ok"
    /\ tpc[t] = "idle"
    /\ \E op \in {"read", "seek", "tell", "close", "closeAll", "cleanup",
                   "closed", "truncate", "write", "writelines"},
          arg \in 0..FileLen :
           /\ (op \notin {"read", "seek"}) => arg = 0
           /\ (op = "read") => arg > 0
           /\ top' = [top EXCEPT ![t] = [NoOp EXCEPT !.op = op, !.arg = arg]]
           /\ tpc' = [tpc EXCEPT ![t] =
                        IF op = "closeAll" THEN "closeAll_wait"
                        ELSE IF op = "cleanup" THEN "cleanup_wait"
                        ELSE IF op = "closed" THEN "closed_in"
                        ELSE IF op \in {"truncate", "write", "writelines"}
                             THEN "raise"
                        ELSE "wait"]
    /\ tres' = [tres EXCEPT ![t] = "none"]
    /\ UNCHANGED <<threads, handles, ready, tit>>

AfterWait(at) ==
    IF at = "wait" THEN "lookup"
    ELSE IF at = "closeAll_wait" THEN "closeAll_clear"
    ELSE "cleanup_clear"

\* self._ready.wait(self.timeout) returns because the event is set
WaitReady(t) ==
    /\ UNCHANGED <<segVars, docVars, codecVars, schemaVars, made, ctor>>
    /\ tpc[t] \in {"wait", "closeAll_wait", "cleanup_wait"}
    /\ ready
    /\ tpc' = [tpc EXCEPT ![t] = AfterWait(tpc[t])]
    /\ UNCHANGED <<threads, handles, ready, top, tit, tres>>

\* ... or because the timeout ran out: the result is not looked at
WaitTimeout(t) ==
    /\ UNCHANGED <<segVars, docVars, codecVars, schemaVars, made, ctor>>
    /\ tpc[t] \in {"wait", "closeAll_wait", "cleanup_wait"}
    /\ ~ready
    /\ tpc' = [tpc EXCEPT ![t] = AfterWait(tpc[t])]
    /\ UNCHANGED <<threads, handles, ready, top, tit, tres>>

\* getThreadStream after the wait: if ident not in self.threads, the file is
\* opened for the thread and the new stream returned
getThreadStream(t) ==
    /\ UNCHANGED <<segVars, docVars, codecVars, schemaVars, made, ctor>>
    /\ tpc[t] = "lookup"
    /\ LET ident == CurrentIdent(t)
       IN IF ~InThreads(ident)
          THEN /\ Len(handles) < MaxOpens
               /\ handles' = Append(handles, Opened)
               /\ threads' = [threads EXCEPT ![ident] = Len(handles) + 1]
               /\ top' = [top EXCEPT ![t].fp = Len(handles) + 1]
               /\ tpc' = [tpc EXCEPT ![t] = "call"]
               /\ UNCHANGED tres
          ELSE /\ tpc' = [tpc EXCEPT ![t] = "fetch"]
               /\ UNCHANGED <<threads, handles, top, tres>>
    /\ UNCHANGED <<ready, tit>>

\* return self.threads[ident]: KeyError when a cleanup by another thread
\* has deleted the entry since the test
getThreadStreamReturn(t) ==
    /\ UNCHANGED <<segVars, docVars, codecVars, schemaVars, made, ctor>>
    /\ tpc[t] = "fetch"
    /\ LET ident == CurrentIdent(t)
       IN IF InThreads(ident)
          THEN /\ top' = [top EXCEPT ![t].fp = threads[ident]]
               /\ tpc' = [tpc EXCEPT ![t] = "call"]
               /\ UNCHANGED tres
          ELSE Finish(t, "KeyError")
    /\ UNCHANGED <<threads, handles, ready, tit>>

\* the closed property: if ident in self.threads ... else return True
closedProperty(t) ==
    /\ UNCHANGED <<segVars, docVars, codecVars, schemaVars, made, ctor>>
    /\ tpc[t] = "closed_in"
    /\ IF InThreads(CurrentIdent(t))
       THEN /\ tpc' = [tpc EXCEPT ![t] = "closed_fetch"]
            /\ UNCHANGED <<top, tres>>
       ELSE Finish(t, "True")
    /\ UNCHANGED <<threads, handles, ready, tit>>

\* return self.threads[ident].closed: KeyError when a cleanup by another
\* thread has deleted the entry since the test
closedPropertyReturn(t) ==
    /\ UNCHANGED <<segVars, docVars, codecVars, schemaVars, made, ctor>>
    /\ tpc[t] = "closed_fetch"
    /\ LET ident == CurrentIdent(t)
       IN IF InThreads(ident)
          THEN Finish(t, IF handles[threads[ident]].closed THEN "True"
                         ELSE "False")
          ELSE Finish(t, "KeyError")
    /\ UNCHANGED <<threads, handles, ready, tit>>

\* raise IOError("Can't truncate(); ... is read-only")
truncate(t) ==
    /\ UNCHANGED <<segVars, docVars, codecVars, schemaVars, made, ctor>>
    /\ tpc[t] = "raise"
    /\ top[t].op = "truncate"
    /\ Finish(t, "IOError")
    /\ UNCHANGED <<threads, handles, ready, tit>>

\* raise IOError("Can't write(); ... is read-only")
write(t) ==
    /\ UNCHANGED <<segVars, docVars, codecVars, schemaVars, made, ctor>>
    /\ tpc[t] = "raise"
    /\ top[t].op = "write"
    /\ Finish(t, "IOError")
    /\ UNCHANGED <<threads, handles, ready, tit>>

\* raise IOError("Can't writelines(); ... is read-only")
writelines(t) ==
    /\ UNCHANGED <<segVars, docVars, codecVars, schemaVars, made, ctor>>
    /\ tpc[t] = "raise"
    /\ top[t].op = "writelines"
    /\ Finish(t, "IOError")
    /\ UNCHANGED <<threads, handles, ready, tit>>

\* io.FileIO.read(n) / seek(offset) / tell() on the thread's stream; each
\* raises ValueError on a closed file
CallStream(t) ==
    /\ UNCHANGED <<segVars, docVars, codecVars, schemaVars, made, ctor>>
    /\ tpc[t] = "call"
    /\ top[t].op \in {"read", "seek", "tell"}
    /\ LET fp == top[t].fp
           h == handles[fp]
       IN IF h.closed
          THEN /\ UNCHANGED handles
               /\ Finish(t, "ValueError")
          ELSE IF top[t].op = "read"
          THEN /\ handles' = [handles EXCEPT
                                ![fp].pos = Min(h.pos + top[t].arg, FileLen)]
               /\ Finish(t, "ok")
          ELSE IF top[t].op = "seek"
          THEN /\ handles' = [handles EXCEPT ![fp].pos = top[t].arg]
               /\ Finish(t, "ok")
          ELSE /\ UNCHANGED handles
               /\ Finish(t, "ok")
    /\ UNCHANGED <<threads, ready, tit>>

\* close(): result = self.getThreadStream().close(), then self.cleanup()
CloseStream(t) ==
    /\ UNCHANGED <<segVars, docVars, codecVars, schemaVars, made, ctor>>
    /\ tpc[t] = "call"
    /\ top[t].op = "close"
    /\ handles' = [handles EXCEPT ![top[t].fp] = Closed]
    /\ tpc' = [tpc EXCEPT ![t] = "cleanup_wait"]
    /\ UNCHANGED <<threads, ready, top, tit, tres>>

\* cleanup: self._ready.clear(); for i in self.threads.keys():
cleanupClear(t) ==
    /\ UNCHANGED <<segVars, docVars, codecVars, schemaVars, made, ctor>>
    /\ tpc[t] = "cleanup_clear"
    /\ ready' = FALSE
    /\ tit' = [tit EXCEPT ![t] = [used |-> Used, at |-> 0]]
    /\ tpc' = [tpc EXCEPT ![t] = "cleanup_loop"]
    /\ UNCHANGED <<threads, handles, top, tres>>

\* del self.threads[i]
DeleteKey(i) == [threads EXCEPT ![i] = 0]

\* one turn of the loop: the iterator's next key (RuntimeError when the dict
\* changed size since the iterator was made), then
\* if self.threads[i].closed: del self.threads[i]
cleanupLoop(t) ==
    /\ UNCHANGED <<segVars, docVars, codecVars, schemaVars, made, ctor>>
    /\ tpc[t] = "cleanup_loop"
    /\ LET later == {i \in Keys : threads[i] > tit[t].at}
       IN IF tit[t].used # Used
          THEN /\ top' = [top EXCEPT ![t].exc = "RuntimeError"]
               /\ tpc' = [tpc EXCEPT ![t] = "cleanup_finally"]
               /\ UNCHANGED <<threads, tit>>
          ELSE IF later = {}
          THEN /\ tpc' = [tpc EXCEPT ![t] = "cleanup_finally"]
               /\ UNCHANGED <<threads, top, tit>>
          ELSE LET i == CHOOSE j \in later :
                            \A k \in later : threads[j] <= threads[k]
               IN /\ threads' = IF handles[threads[i]].closed
                                THEN DeleteKey(i) ELSE threads
                  /\ tit' = [tit EXCEPT ![t].at = threads[i]]
                  /\ UNCHANGED <<top, tpc>>
    /\ UNCHANGED <<handles, ready, tres>>

\* finally: self._ready.set(); the exception, if any, goes on to the caller
cleanupFinally(t) ==
    /\ UNCHANGED <<segVars, docVars, codecVars, schemaVars, made, ctor>>
    /\ tpc[t] = "cleanup_finally"
    /\ ready' = TRUE
    /\ tit' = [tit EXCEPT ![t] = NoIter]
    /\ UNCHANGED <<threads, handles>>
    /\ Finish(t, IF top[t].exc = "none" THEN "ok" ELSE top[t].exc)

\* closeAll: self._ready.clear(); list(self.threads.values())
closeAllClear(t) ==
    /\ UNCHANGED <<segVars, docVars, codecVars, schemaVars, made, ctor>>
    /\ tpc[t] = "closeAll_clear"
    /\ ready' = FALSE
    /\ top' = [top EXCEPT ![t].snap = {threads[i] : i \in Keys}]
    /\ tpc' = [tpc EXCEPT ![t] = "closeAll_close"]
    /\ UNCHANGED <<threads, handles, tit, tres>>

\* for v in ...: v.close()
closeAllClose(t) ==
    /\ UNCHANGED <<segVars, docVars, codecVars, schemaVars, made, ctor>>
    /\ tpc[t] = "closeAll_close"
    /\ handles' = [h \in 1..Len(handles) |->
                     IF h \in top[t].snap THEN Closed ELSE handles[h]]
    /\ tpc' = [tpc EXCEPT ![t] = "closeAll_finally"]
    /\ UNCHANGED <<threads, ready, top, tit, tres>>

\* finally: self._ready.set()
closeAllFinally(t) ==
    /\ UNCHANGED <<segVars, docVars, codecVars, schemaVars, made, ctor>>
    /\ tpc[t] = "closeAll_finally"
    /\ ready' = TRUE
    /\ UNCHANGED <<threads, handles, tit>>
    /\ Finish(t, "ok")

FileNext ==
    \/ ThreadAwareFileInit
    \/ \E t \in Idents :
        \/ Begin(t)
        \/ WaitReady(t)
        \/ WaitTimeout(t)
        \/ getThreadStream(t)
        \/ getThreadStreamReturn(t)
        \/ closedProperty(t)
        \/ closedPropertyReturn(t)
        \/ truncate(t)
        \/ write(t)
        \/ writelines(t)
        \/ CallStream(t)
        \/ CloseStream(t)
        \/ cleanupClear(t)
        \/ cleanupLoop(t)
        \/ cleanupFinally(t)
        \/ closeAllClear(t)
        \/ closeAllClose(t)
        \/ closeAllFinally(t)

(***************************************************************************)
(* Documents and their elements. A value is held as a sequence: the bytes  *)
(* of a binary payload, the one number of an unsigned integer, the child   *)
(* elements of a master element.                                           *)
(***************************************************************************)
\* readUInt(stream, size) with the stream at position p
readUInt(data, p, size) ==
    IF size = 0 THEN <<0>> ELSE <<BigEndian(StreamRead(data, p, size))>>

\* el.parse(stream, el.size) of an element that is no master element, the
\* stream at position p
parse(data, r, p) ==
    IF ElementType(r.id) = "VoidElement" THEN <<>>
    ELSE IF ElementType(r.id) = "UIntegerElement" THEN readUInt(data, p, r.size)
    ELSE StreamRead(data, p, r.size)

\* does that parse read from the stream, and where does it leave it
parseReads(r) ==
    /\ ElementType(r.id) # "VoidElement"
    /\ ~(ElementType(r.id) = "UIntegerElement" /\ r.size = 0)
parseTell(data, r, p) ==
    IF parseReads(r) /\ p < Len(data) THEN Min(p + r.size, Len(data)) ELSE p

RECURSIVE MasterIter(_, _, _, _, _)
\* MasterElement.__iter__: the children between at and payloadEnd
MasterIter(data, at, payloadEnd, acc, tell) ==
    IF at >= payloadEnd THEN [st |-> "ok", els |-> acc, tell |-> tell]
    ELSE The({ IF r.st = "TypeErrorOrd"
               THEN [st |-> "ok", els |-> acc, tell |-> r.tell]
               ELSE IF r.st # "ok"
               THEN [st |-> r.st, els |-> acc, tell |-> r.tell]
               ELSE MasterIter(data, r.next, payloadEnd, Append(acc, r), r.tell)
               : r \in {parseElement(data, at, FALSE)} })

RECURSIVE dump(_, _, _)
RECURSIVE dumpChildren(_, _, _, _)
\* MasterElement.dump: for el in self: ... el.dump(); st and the position
\* the stream is left at
dumpChildren(data, at, payloadEnd, tell) ==
    IF at >= payloadEnd THEN [st |-> "ok", tell |-> tell]
    ELSE The({ IF r.st = "TypeErrorOrd" THEN [st |-> "ok", tell |-> r.tell]
               ELSE IF r.st # "ok" THEN [st |-> r.st, tell |-> r.tell]
               ELSE The({ IF d.st # "ok" THEN d
                          ELSE dumpChildren(data, r.next, payloadEnd, d.tell)
                          : d \in {dump(data, r, r.tell)} })
               : r \in {parseElement(data, at, FALSE)} })

\* el.dump() of an element just parsed: its value, read unless precached
dump(data, r, tell) ==
    IF ElementType(r.id) = "MasterElement"
    THEN dumpChildren(data, r.payloadOffset, r.payloadOffset + r.size, tell)
    ELSE IF precache(r.id) THEN [st |-> "ok", tell |-> tell]
    ELSE [st |-> "ok", tell |-> parseTell(data, r, r.payloadOffset)]

\* result[el.name] = el.dump(): the entry of an element of that id, if any,
\* is replaced
Put(result, eid, value) ==
    SelectSeq(result, LAMBDA entry : entry[1] # eid) \o <<<<eid, value>>>>

RECURSIVE dumped(_, _)
RECURSIVE dumpedChildren(_, _, _, _)
\* what a dump that does not raise returns: for a master element the Dict of
\* its children's dumps, an entry <<id, dump>> each; else the value
dumpedChildren(data, at, payloadEnd, result) ==
    IF at >= payloadEnd THEN result
    ELSE The({ IF r.st # "ok" THEN result
               ELSE dumpedChildren(data, r.next, payloadEnd,
                                   Put(result, r.id, dumped(data, r)))
               : r \in {parseElement(data, at, FALSE)} })

dumped(data, r) ==
    IF ElementType(r.id) = "MasterElement"
    THEN dumpedChildren(data, r.payloadOffset, r.payloadOffset + r.size, <<>>)
    ELSE parse(data, r, r.payloadOffset)

RECURSIVE crawl(_, _, _)
\* Schema.verify's _crawl over the elements from at on: the elements of a
\* master element up to payloadEnd, the root elements of the document
\* (payloadEnd None) up to the end of the data
crawl(data, at, payloadEnd) ==
    IF payloadEnd # None /\ at >= payloadEnd THEN "ok"
    ELSE The({ IF r.st = "TypeErrorOrd" THEN "ok"
               ELSE IF r.st # "ok" THEN r.st
               ELSE IF ElementType(r.id) = "MasterElement"
               THEN The({ IF c # "ok" THEN c
                          ELSE crawl(data, r.next, payloadEnd)
                          : c \in {crawl(data, r.payloadOffset,
                                         r.payloadOffset + r.size)} })
               ELSE IF ElementType(r.id) = "UnknownElement" THEN "NameError"
               ELSE crawl(data, r.next, payloadEnd)
               : r \in {parseElement(data, at, FALSE)} })

\* Schema.verify(data): _crawl(self.loads(data))
verify(data) == crawl(data, 0, None)

\* the root elements a document is made of
DocItems == {"header", "version", "void", "unknown", "segment"}
DocItem(kind) ==
    IF kind = "header" THEN EbmlIdBytes \o <<132, 66, 134, 129, 1>>
    ELSE IF kind = "version" THEN <<66, 134, 129, 2>>
    ELSE IF kind = "void" THEN <<236, 130, 1, 2>>
    ELSE IF kind = "unknown" THEN <<129, 129, 7>>
    \* an EBML header whose payload is a byte that is no id
    ELSE IF kind = "badheader" THEN EbmlIdBytes \o <<129, 0>>
    \* a byte that is no id
    ELSE IF kind = "bad" THEN <<0>>
    \* a Segment of unknown size, its children behind it
    ELSE IF kind = "open" THEN SegmentIdBytes \o <<255>>
    \* a Cluster of known size that holds a SimpleBlock
    ELSE IF kind = "cluster" THEN ClusterIdBytes \o <<131, 163, 129, 5>>
    ELSE SegmentIdBytes \o <<255>> \o ClusterIdBytes \o <<255, 163, 129, 4>>

NoGot == [op |-> "none", k |-> 0, value |-> <<>>, read |-> FALSE]

\* a call Document(stream, headers=...) about to run, stream a filename or
\* a stream object of the caller's, at position 0
DocInit ==
    /\ \E n \in 1..MaxDocElements :
       \E items \in [1..n -> DocItems], arg \in {"filename", "stream"},
          headers \in BOOLEAN :
           document = [items |-> items,
                       data |-> Concat([k \in 1..n |-> DocItem(items[k])]),
                       arg |-> arg, headers |-> headers, made |-> FALSE,
                       ownsStream |-> FALSE, payloadOffset |-> 0,
                       info |-> <<>>]
    /\ source = [pos |-> 0, closed |-> FALSE]
    /\ elements = <<>>
    /\ iterator = [at |-> 0, st |-> "none"]
    /\ got = NoGot
    /\ verified = "none"

\* a Document that takes every source for its own
ownsAnySource(arg) == TRUE

\* isinstance(stream, (str, bytes, bytearray)): the Document opens the file
ownsStream(arg) == arg = "filename"

\* Document.__init__, the try block: the first element is parsed, and dumped
\* if it is the EBML header; any failure of that is swallowed. The position
\* the stream is left at, and self.payloadOffset.
\* the offset of the payload left at the document's start
readHeaderKept(data, headers) ==
    LET r == parseElement(data, 0, FALSE)
        d == IF r.st = "ok" /\ r.id = EBML_ID THEN dump(data, r, r.tell)
             ELSE [st |-> r.st, tell |-> r.tell]
    IN [tell |-> d.tell,
        info |-> IF r.st = "ok" /\ r.id = EBML_ID /\ d.st = "ok"
                 THEN dumped(data, r) ELSE <<>>,
        payloadOffset |-> 0]

readHeader(data, headers) ==
    LET r == parseElement(data, 0, FALSE)
        d == IF r.st = "ok" /\ r.id = EBML_ID THEN dump(data, r, r.tell)
             ELSE [st |-> r.st, tell |-> r.tell]
    IN [tell |-> d.tell,
        info |-> IF r.st = "ok" /\ r.id = EBML_ID /\ d.st = "ok"
                 THEN dumped(data, r) ELSE <<>>,
        payloadOffset |-> IF r.st = "ok" /\ r.id = EBML_ID /\ d.st = "ok"
                             /\ ~headers
                          THEN r.next ELSE 0]

\* Document.__init__
DocumentInit ==
    /\ UNCHANGED <<segVars, fileVars, codecVars, schemaVars>>
    /\ ~document.made
    /\ LET h == readHeader(document.data, document.headers)
       IN /\ document' = [document EXCEPT
                 !.made = TRUE,
                 !.ownsStream = ownsStream(document.arg),
                 !.payloadOffset = h.payloadOffset,
                 !.info = h.info]
          /\ source' = [source EXCEPT !.pos = h.tell]
    /\ got' = [NoGot EXCEPT !.op = "init"]
    /\ UNCHANGED <<elements, iterator, verified>>

\* was the element read with size None
sizeIsNone(data, r) ==
    readElementSize(data, AfterId(data, r.offset)).size = Unknown

RECURSIVE numChildren(_, _, _, _)
\* the size property's count of the valid children from p on
numChildren(data, parent, p, n) ==
    The({ IF r.st # "ok" THEN n
          ELSE IF isValidChild(parent, r.id)
          THEN numChildren(data, parent, r.next, n + 1)
          ELSE n
          : r \in {parseElement(data, p, TRUE)} })

RECURSIVE MasterCount(_, _, _, _, _)
\* enumerate(self.__iter__(nocache=True), 1): the number of children between
\* at and payloadEnd
MasterCount(data, at, payloadEnd, n, tell) ==
    IF at >= payloadEnd THEN [st |-> "ok", n |-> n, tell |-> tell]
    ELSE The({ IF r.st = "TypeErrorOrd"
               THEN [st |-> "ok", n |-> n, tell |-> r.tell]
               ELSE IF r.st # "ok" THEN [st |-> r.st, n |-> n, tell |-> r.tell]
               ELSE MasterCount(data, r.next, payloadEnd, n + 1, r.tell)
               : r \in {parseElement(data, at, TRUE)} })

\* the element object made from a parse, its value cached when precached
\* (read with the stream just behind the element's header)
Element(data, r) ==
    [id |-> r.id, type |-> ElementType(r.id), offset |-> r.offset,
     size |-> r.size, payloadOffset |-> r.payloadOffset,
     cached |-> precache(r.id),
     value |-> IF precache(r.id)
               THEN parse(data, r, Min(r.payloadOffset, Len(data)))
               ELSE <<>>,
     parses |-> IF precache(r.id) THEN 1 ELSE 0,
     \* self._length, which the size property of a master element of size
     \* None sets
     length |-> IF ElementType(r.id) = "MasterElement" /\ sizeIsNone(data, r)
                THEN numChildren(data, r.id, r.payloadOffset, 0)
                ELSE None]

\* one turn of Document.__iter__: self.stream.seek(pos), parseElement, yield
DocumentNext ==
    /\ UNCHANGED <<segVars, fileVars, codecVars, schemaVars>>
    /\ document.made
    /\ iterator.st \in {"none", "running"}
    /\ LET at == IF iterator.st = "none" THEN document.payloadOffset
                 ELSE iterator.at
           r == parseElement(document.data, at, FALSE)
       IN IF source.closed
          THEN /\ iterator' = [at |-> at, st |-> "ValueError"]
               /\ UNCHANGED <<source, elements>>
          ELSE /\ source' = [source EXCEPT !.pos = r.tell]
               /\ IF r.st = "ok"
                  THEN /\ elements' = Append(elements, Element(document.data, r))
                       /\ iterator' = [at |-> r.next, st |-> "running"]
                  ELSE /\ iterator' = [at |-> at,
                                       st |-> IF r.st = "TypeErrorOrd"
                                              THEN "done" ELSE r.st]
                       /\ UNCHANGED elements
    /\ got' = [NoGot EXCEPT !.op = "next"]
    /\ UNCHANGED <<document, verified>>

\* the one-element stream position of a value read with no seek before it
noSeek(e, at) == at

\* self.stream.seek(self.payloadOffset)
seekPayload(e, at) == e.payloadOffset

\* what a master element's value keeps of each child
Child(r) == [id |-> r.id, offset |-> r.offset, size |-> r.size]

\* the value property of the k-th element: Element.value, MasterElement.value
ElementValue(k) ==
    /\ UNCHANGED <<segVars, fileVars, codecVars, schemaVars>>
    /\ k \in 1..Len(elements)
    /\ LET e == elements[k]
           data == document.data
       IN IF e.cached
          THEN /\ got' = [op |-> "value", k |-> k, value |-> e.value,
                          read |-> FALSE]
               /\ UNCHANGED <<source, elements>>
          ELSE IF source.closed
          THEN /\ got' = [op |-> "ValueError", k |-> k, value |-> <<>>,
                          read |-> FALSE]
               /\ UNCHANGED <<source, elements>>
          ELSE IF e.type = "MasterElement"
          THEN LET m == MasterIter(data, e.payloadOffset,
                                   e.payloadOffset + e.size, <<>>, source.pos)
                   v == [j \in 1..Len(m.els) |-> Child(m.els[j])]
               IN /\ source' = [source EXCEPT !.pos = m.tell]
                  /\ IF m.st = "ok"
                     THEN /\ elements' = [elements EXCEPT ![k].cached = TRUE,
                                                          ![k].value = v,
                                                          ![k].parses = @ + 1]
                          /\ got' = [op |-> "value", k |-> k, value |-> v,
                                     read |-> e.size > 0]
                     ELSE /\ got' = [op |-> m.st, k |-> k, value |-> <<>>,
                                     read |-> TRUE]
                          /\ UNCHANGED elements
          ELSE LET p == seekPayload(e, source.pos)
                   v == parse(data, e, p)
               IN /\ e.parses < 2
                  /\ source' = [source EXCEPT !.pos = parseTell(data, e, p)]
                  /\ elements' = [elements EXCEPT ![k].cached = TRUE,
                                                  ![k].value = v,
                                                  ![k].parses = @ + 1]
                  /\ got' = [op |-> "value", k |-> k, value |-> v,
                             read |-> parseReads(e)]
    /\ UNCHANGED <<document, iterator, verified>>

\* len() of the k-th element: MasterElement.__len__, BinaryElement.__len__;
\* the other types have none
ElementLen(k) ==
    /\ UNCHANGED <<segVars, fileVars, codecVars, schemaVars>>
    /\ k \in 1..Len(elements)
    /\ LET e == elements[k]
           data == document.data
       IN IF e.type \in {"BinaryElement", "VoidElement", "UnknownElement"}
          THEN /\ got' = [op |-> "len", k |-> k, value |-> <<e.size>>,
                          read |-> FALSE]
               /\ UNCHANGED <<source, elements>>
          ELSE IF e.type # "MasterElement"
          THEN /\ got' = [op |-> "TypeError", k |-> k, value |-> <<>>,
                          read |-> FALSE]
               /\ UNCHANGED <<source, elements>>
          ELSE IF e.length # None
          THEN /\ got' = [op |-> "len", k |-> k, value |-> <<e.length>>,
                          read |-> FALSE]
               /\ UNCHANGED <<source, elements>>
          ELSE IF e.cached
          THEN /\ got' = [op |-> "len", k |-> k, value |-> <<Len(e.value)>>,
                          read |-> FALSE]
               /\ elements' = [elements EXCEPT ![k].length = Len(e.value)]
               /\ UNCHANGED source
          ELSE IF source.closed /\ e.size > 0
          THEN /\ got' = [op |-> "ValueError", k |-> k, value |-> <<>>,
                          read |-> FALSE]
               /\ UNCHANGED <<source, elements>>
          ELSE LET m == MasterCount(data, e.payloadOffset,
                                    e.payloadOffset + e.size, 0, source.pos)
               IN /\ source' = [source EXCEPT !.pos = m.tell]
                  /\ IF m.st = "ok"
                     THEN /\ elements' = [elements EXCEPT ![k].length = m.n]
                          /\ got' = [op |-> "len", k |-> k, value |-> <<m.n>>,
                                     read |-> e.size > 0]
                     ELSE /\ got' = [op |-> m.st, k |-> k, value |-> <<>>,
                                     read |-> TRUE]
                          /\ UNCHANGED elements
    /\ UNCHANGED <<document, iterator, verified>>

\* the caller moves the stream the document reads from
StreamSeek ==
    /\ UNCHANGED <<segVars, fileVars, codecVars, schemaVars>>
    /\ document.made
    /\ ~source.closed
    /\ \E p \in {0, Len(document.data)} :
           /\ p # source.pos
           /\ source' = [source EXCEPT !.pos = p]
    /\ got' = [NoGot EXCEPT !.op = "seek"]
    /\ UNCHANGED <<document, elements, iterator, verified>>

\* Document.close(): if self._ownsStream: self.stream.close()
DocumentClose ==
    /\ UNCHANGED <<segVars, fileVars, codecVars, schemaVars>>
    /\ document.made
    /\ source' = [source EXCEPT !.closed = @ \/ document.ownsStream]
    /\ got' = [NoGot EXCEPT !.op = "close"]
    /\ UNCHANGED <<document, elements, iterator, verified>>

\* Document.__exit__: self.close()
DocumentExit ==
    /\ UNCHANGED <<segVars, fileVars, codecVars, schemaVars>>
    /\ document.made
    /\ source' = [source EXCEPT !.closed = @ \/ document.ownsStream]
    /\ got' = [NoGot EXCEPT !.op = "exit"]
    /\ UNCHANGED <<document, elements, iterator, verified>>

\* Schema.verify on the document's bytes, through a BytesIO of its own
SchemaVerify ==
    /\ UNCHANGED <<segVars, fileVars, codecVars, schemaVars>>
    /\ verified = "none"
    /\ verified' = verify(document.data)
    /\ got' = [NoGot EXCEPT !.op = "verify"]
    /\ UNCHANGED <<document, source, elements, iterator>>

DocNext ==
    \/ DocumentInit
    \/ DocumentNext
    \/ \E k \in 1..(MaxDocElements + 1) : ElementValue(k)
    \/ StreamSeek
    \/ DocumentClose
    \/ DocumentExit
    \/ SchemaVerify

\* The documents of the files read whole or cut short: an optional first
\* element, then nothing or a Segment of unknown size with its children (a
\* Cluster, or the global Void) and an element that is no child of it.
ReadFirsts == {<<>>, <<"header">>, <<"badheader">>, <<"unknown">>, <<"bad">>}
ChildRuns == UNION {[1..n -> {"cluster", "void"}] : n \in 0..MaxChildren}
ReadTails == {<<>>, <<"unknown">>, <<"header">>}
ReadDocs ==
    {first \o body :
        first \in ReadFirsts,
        body \in {<<>>} \cup {<<"open">> \o kids \o tail :
                                 kids \in ChildRuns, tail \in ReadTails}}

\* the whole file the items make
WholeData(items) == Concat([k \in 1..Len(items) |-> DocItem(items[k])])

\* a call Document(stream, headers=...) about to run on a file that lost up
\* to MaxCut bytes at its end
DocInitRead ==
    /\ \E items \in ReadDocs, cut \in 0..MaxCut, headers \in BOOLEAN :
           /\ cut <= Len(WholeData(items))
           /\ document = [items |-> items,
                          data |-> SubSeq(WholeData(items), 1,
                                          Len(WholeData(items)) - cut),
                          arg |-> "stream", headers |-> headers,
                          made |-> FALSE, ownsStream |-> FALSE,
                          payloadOffset |-> 0, info |-> <<>>]
    /\ source = [pos |-> 0, closed |-> FALSE]
    /\ elements = <<>>
    /\ iterator = [at |-> 0, st |-> "none"]
    /\ got = NoGot
    /\ verified = "none"

ReadNext ==
    \/ DocumentInit
    \/ DocumentNext
    \/ \E k \in 1..(MaxDocElements + 1) : ElementValue(k)
    \/ \E k \in 1..(MaxDocElements + 1) : ElementLen(k)

\* the document at rest, for the specifications of the other parts
DocIdle ==
    /\ document = [items |-> <<>>, data |-> <<>>, arg |-> "stream",
                   headers |-> TRUE, made |-> FALSE, ownsStream |-> FALSE,
                   payloadOffset |-> 0, info |-> <<>>]
    /\ source = [pos |-> 0, closed |-> FALSE]
    /\ elements = <<>>
    /\ iterator = [at |-> 0, st |-> "none"]
    /\ got = NoGot
    /\ verified = "none"

(***************************************************************************)
(* The encoders and decoders called on values: one call of an encoder,     *)
(* then the decoder of sizes or of ids on what it returned.                *)
(***************************************************************************)
\* the length argument: None, or a fixed length
Lengths == {None} \cup 0..MaxLength

\* 2**(7*L) - 2, the largest size that L bytes encode; 2**(7*L) - 1; 2**(7*L)
SizeEdge(L, d) ==
    IF d = -1 THEN [AllOnes[L] EXCEPT ![8] = @ - 1]
    ELSE IF d = 0 THEN AllOnes[L]
    ELSE Pad(8 - L, 0) \o <<2 ^ (8 - L)>> \o Pad(L - 1, 0)

SizeValues ==
    {Unknown} \cup {pack(n) : n \in 0..MaxSmall}
              \cup {SizeEdge(L, d) : L \in 1..8, d \in {-1, 0, 1}}

\* ids at the ends of the four classes of id, and between them
IdValues ==
    {0, 128, 129, 254, 255, 256, 16384, 16511, 32766, 32767, 32768,
     2097152, 2113535, 4194302, 4194303, 4194304, 268435455, 268435456,
     270532607, 536870910, 536870911, 536870912,
     EBML_ID, SEGMENT_ID, CLUSTER_ID, SIMPLEBLOCK_ID, EBMLVERSION_ID, VOID_ID}

UIntValues == {0, 1, 255, 256, 65535, 65536} \cup 0..MaxSmall
IntValues == {0, 127, 128, -1, -128, -129, 32767, 32768, -32768, -32769}
                 \cup 0..MaxSmall

\* texts of the code points of "a", of a control character and of e-acute
Texts == UNION {[1..n -> {97, 1, 233}] : n \in 0..MaxText}
Floats == {"0.0", "1.5", "0.1", "1e300"}

\* datetime(2001, 1, 1), a microsecond and a second after it, and a
\* microsecond before it, as the timedelta from the epoch
Dates == {[days |-> 0, seconds |-> 0, microseconds |-> 0],
          [days |-> 0, seconds |-> 0, microseconds |-> 1],
          [days |-> 0, seconds |-> 1, microseconds |-> 0],
          [days |-> -1, seconds |-> 86399, microseconds |-> 999999]}

Calls ==
    [fn : {"encodeSize"}, val : SizeValues, length : Lengths]
    \cup [fn : {"encodeId"}, val : {pack(x) : x \in IdValues}, length : Lengths]
    \cup [fn : {"encodeUInt"}, val : {pack(n) : n \in UIntValues}, length : Lengths]
    \cup [fn : {"encodeInt"}, val : {pack(n) : n \in IntValues}, length : Lengths]
    \cup [fn : {"encodeFloat"}, val : Floats, length : Lengths]
    \cup [fn : {"encodeBinary", "encodeString", "encodeUnicode"},
          val : Texts, length : Lengths]
    \cup [fn : {"encodeDate"}, val : Dates, length : Lengths]

\* no encoder is called, nothing returned, nothing decoded
NoCodec == [fn |-> "none", val |-> <<>>, length |-> None]
NoOut == [st |-> "none", bytes |-> <<>>]
NoBack == [st |-> "none", length |-> 0]
CodecIdle == call = NoCodec /\ out = NoOut /\ back = NoBack

CodecInit ==
    /\ call \in Calls
    /\ out = NoOut
    /\ back = NoBack

EncodeSize ==
    /\ call.fn = "encodeSize"
    /\ out = NoOut
    /\ out' = encodeSize(call.val, call.length)
    /\ UNCHANGED <<call, back>>
    /\ UNCHANGED <<segVars, fileVars, docVars, schemaVars>>

EncodeId ==
    /\ call.fn = "encodeId"
    /\ out = NoOut
    /\ out' = encodeId(call.val, call.length)
    /\ UNCHANGED <<call, back>>
    /\ UNCHANGED <<segVars, fileVars, docVars, schemaVars>>

EncodeUInt ==
    /\ call.fn = "encodeUInt"
    /\ out = NoOut
    /\ out' = encodeUInt(call.val, call.length)
    /\ UNCHANGED <<call, back>>
    /\ UNCHANGED <<segVars, fileVars, docVars, schemaVars>>

EncodeInt ==
    /\ call.fn = "encodeInt"
    /\ out = NoOut
    /\ out' = encodeInt(call.val, call.length)
    /\ UNCHANGED <<call, back>>
    /\ UNCHANGED <<segVars, fileVars, docVars, schemaVars>>

EncodeFloat ==
    /\ call.fn = "encodeFloat"
    /\ out = NoOut
    /\ out' = encodeFloat(call.val, call.length)
    /\ UNCHANGED <<call, back>>
    /\ UNCHANGED <<segVars, fileVars, docVars, schemaVars>>

EncodeBinary ==
    /\ call.fn = "encodeBinary"
    /\ out = NoOut
    /\ out' = encodeBinary(call.val, call.length)
    /\ UNCHANGED <<call, back>>
    /\ UNCHANGED <<segVars, fileVars, docVars, schemaVars>>

EncodeString ==
    /\ call.fn = "encodeString"
    /\ out = NoOut
    /\ out' = encodeString(call.val, call.length)
    /\ UNCHANGED <<call, back>>
    /\ UNCHANGED <<segVars, fileVars, docVars, schemaVars>>

EncodeUnicode ==
    /\ call.fn = "encodeUnicode"
    /\ out = NoOut
    /\ out' = encodeUnicode(call.val, call.length)
    /\ UNCHANGED <<call, back>>
    /\ UNCHANGED <<segVars, fileVars, docVars, schemaVars>>

EncodeDate ==
    /\ call.fn = "encodeDate"
    /\ out = NoOut
    /\ out' = encodeDate(call.val, call.length)
    /\ UNCHANGED <<call, back>>
    /\ UNCHANGED <<segVars, fileVars, docVars, schemaVars>>

\* readElementSize(BytesIO(encoded))
ReadElementSize ==
    /\ call.fn = "encodeSize"
    /\ out.st = "ok"
    /\ back = NoBack
    /\ back' = readElementSize(out.bytes, 0)
    /\ UNCHANGED <<call, out>>
    /\ UNCHANGED <<segVars, fileVars, docVars, schemaVars>>

\* readElementID(BytesIO(encoded))
ReadElementID ==
    /\ call.fn = "encodeId"
    /\ out.st = "ok"
    /\ back = NoBack
    /\ back' = readElementID(out.bytes, 0)
    /\ UNCHANGED <<call, out>>
    /\ UNCHANGED <<segVars, fileVars, docVars, schemaVars>>

CodecNext ==
    \/ EncodeSize
    \/ EncodeId
    \/ EncodeUInt
    \/ EncodeInt
    \/ EncodeFloat
    \/ EncodeBinary
    \/ EncodeString
    \/ EncodeUnicode
    \/ EncodeDate
    \/ ReadElementSize
    \/ ReadElementID

(***************************************************************************)
(* Schema.addElement, called as _parseSchema calls it for the elements of  *)
(* a schema file. A dictionary is a function from its keys; an element     *)
(* class is known by its id, since no id is ever given a second class.     *)
(***************************************************************************)
\* the schema itself as the parent of the root elements
Root == 0

\* the id attributes a schema file spells, and int(attribs['id'], 16)
IdSpellings == {"81", "0x81", "82"}
Int16(text) == IF text = "82" THEN 130 ELSE 129

\* the name attributes a schema file spells, and attribs['name'].strip()
NameSpellings == {"A", " A", "B"}
strip(text) == IF text = "B" THEN "B" ELSE "A"

\* ename when the element has no name attribute (None)
NoName == ""

\* the tags of the schema file's elements, and issubclass on their classes
BaseClasses == {"IntegerElement", "UIntegerElement", "MasterElement"}
issubclass(cls, baseClass) ==
    cls = baseClass
        \/ (cls = "UIntegerElement" /\ baseClass = "IntegerElement")

\* el.attrib of an element of the schema file
AttribKeys == {"id", "name", "multiple"}
AttribValues(k) ==
    IF k = "id" THEN IdSpellings
    ELSE IF k = "name" THEN NameSpellings
    ELSE {"1"}
Attribs ==
    UNION {{f \in [K -> IdSpellings \cup NameSpellings \cup {"1"}] :
               \A k \in K : f[k] \in AttribValues(k)} :
           K \in SUBSET AttribKeys}

\* eid and ename as _parseSchema takes them from the attributes
Eid(attribs) ==
    IF "id" \in DOMAIN attribs THEN Int16(attribs["id"]) ELSE None
Ename(attribs) ==
    IF "name" \in DOMAIN attribs THEN strip(attribs["name"]) ELSE NoName

\* the attributes given a second time taken for those of the first
UpdateKept(old, new) == old

\* newatts = old.copy(); newatts.update(new)
Update(old, new) ==
    [k \in DOMAIN old \cup DOMAIN new |->
        IF k \in DOMAIN new THEN new[k] ELSE old[k]]

\* Schema.__init__: the registries before the schema file is read
EmptySchema ==
    [elements |-> <<>>, elementsByName |-> <<>>, elementInfo |-> <<>>,
     globals |-> {}, children |-> (Root :> {})]

\* parent = parent or self
ParentOrSelf(parent) == IF parent = None THEN Root ELSE parent

\* an exception leaving addElement, the schema as it was
Raised(kind, s) == [st |-> kind, eclass |-> None, schema |-> s]

\* parent.children[eid] = eclass; return eclass
Returned(s, eclass, parent) ==
    [st |-> "ok", eclass |-> eclass,
     schema |-> [s EXCEPT !.children[ParentOrSelf(parent)] = @ \cup {eclass}]]

\* Schema.addElement
addElement(s, eid, ename, baseClass, attribs, parent) ==
    IF eid \in DOMAIN s.elements \/ ename \in DOMAIN s.elementsByName
    THEN \* oldEl = self[ename or eid]
         IF ename # NoName /\ ename \notin DOMAIN s.elementsByName
         THEN Raised("KeyError", s)
         ELSE LET oldEl == IF ename # NoName THEN s.elementsByName[ename]
                           ELSE eid
              IN IF ~issubclass(s.elements[oldEl].base, baseClass)
                 THEN Raised("TypeError", s)
                 ELSE IF s.elementInfo[oldEl]
                            # Update(s.elementInfo[oldEl], attribs)
                 THEN Raised("TypeError", s)
                 ELSE Returned(s, oldEl, parent)
    ELSE IF eid = None \/ ename = NoName THEN Raised("ValueError", s)
    ELSE Returned([s EXCEPT
                      !.elements = @ @@ (eid :> [base |-> baseClass,
                                                 name |-> ename]),
                      !.elementInfo = @ @@ (eid :> attribs),
                      !.elementsByName = @ @@ (ename :> eid),
                      !.children = @ @@ (eid :> {})],
                  eid, parent)

NoReply == [n |-> 0, attribs |-> <<>>, baseClass |-> "none", parent |-> None,
            st |-> "none", eclass |-> None]
NoPair == <<>>

SchemaIdle ==
    schema = EmptySchema /\ reply = NoReply /\ pair = NoPair /\ equal = "none"

\* the schema before its file is read
SchemaInit ==
    schema = EmptySchema /\ reply = NoReply /\ pair = NoPair /\ equal = "none"

\* the master element classes declared so far, each a possible parent
Masters ==
    {e \in DOMAIN schema.elements : schema.elements[e].base = "MasterElement"}

\* _parseSchema on one element of the schema file: addElement with the
\* element's attributes, under a master element or under no parent
ParseSchema ==
    /\ UNCHANGED <<segVars, fileVars, docVars, codecVars>>
    /\ reply.n < MaxDeclarations
    /\ \E attribs \in Attribs, baseClass \in BaseClasses,
          parent \in {None} \cup Masters :
           LET r == addElement(schema, Eid(attribs), Ename(attribs),
                               baseClass, attribs, parent)
           IN /\ schema' = r.schema
              /\ reply' = [n |-> reply.n + 1, attribs |-> attribs,
                           baseClass |-> baseClass, parent |-> parent,
                           st |-> r.st, eclass |-> r.eclass]
    /\ UNCHANGED <<pair, equal>>

SchemaNext == ParseSchema

(***************************************************************************)
(* The equality of two elements: Element.__eq__ and what the element       *)
(* classes make of it. An element is its class, id, offset, schema and the *)
(* bytes of its payload; its value is the parse of those bytes.            *)
(***************************************************************************)
ElementClasses ==
    {"IntegerElement", "UIntegerElement", "StringElement", "BinaryElement",
     "MasterElement", "UnknownElement"}

\* the class attribute dtype
dtype(cls) ==
    IF cls \in {"IntegerElement", "UIntegerElement"} THEN "int"
    ELSE IF cls = "StringElement" THEN "str"
    ELSE IF cls = "MasterElement" THEN "list"
    ELSE "bytearray"

\* the class attribute name: the schema's name for the id, or UnknownElement
ElementName(el) ==
    IF el.cls = "UnknownElement" THEN <<"UnknownElement">>
    ELSE <<"Element", el.id>>

\* Schema objects: two made from one schema file, one from another file
Schemas == {1, 2, 3}
elementInfoOf(s) == IF s = 3 THEN "another file" ELSE "one file"

\* Schema.__eq__
SchemaEq(s, other) == s = other \/ elementInfoOf(s) = elementInfoOf(other)

\* readInt(stream, size) on the bytes of a payload
readInt(payload) ==
    IF Len(payload) = 0 THEN 0
    ELSE IF payload[1] >= 128
    THEN BigEndian(payload) - 256 ^ Len(payload)
    ELSE BigEndian(payload)

\* value.partition(b'\x00')[0]
RECURSIVE partition0(_)
partition0(payload) ==
    IF payload = <<>> \/ Head(payload) = 0 THEN <<>>
    ELSE <<Head(payload)>> \o partition0(Tail(payload))

\* readString(stream, size): str(value, 'ascii', 'replace')
readString(payload) ==
    [i \in 1..Len(partition0(payload)) |->
        IF partition0(payload)[i] < 128 THEN partition0(payload)[i]
        ELSE 65533]

\* the value property: el.parse(stream, size)
ValueOf(el) ==
    IF el.cls = "IntegerElement" THEN <<"int", readInt(el.payload)>>
    ELSE IF el.cls = "UIntegerElement"
    THEN <<"int", readUInt(el.payload, 0, el.size)[1]>>
    ELSE IF el.cls = "StringElement" THEN <<"str", readString(el.payload)>>
    ELSE IF el.cls = "MasterElement" THEN <<"list", el.payload>>
    ELSE <<"bytearray", el.payload>>

\* Element.__eq__
ElementEq(el, other) ==
    /\ dtype(el.cls) = dtype(other.cls)
    /\ el.id = other.id
    /\ el.offset = other.offset
    /\ el.size = other.size
    /\ SchemaEq(el.schema, other.schema)

\* el == other: UnknownElement.__eq__, IntegerElement.__eq__,
\* StringElement.__eq__, and Element.__eq__ for the classes that have none
eq(el, other) ==
    IF el.cls = "UnknownElement"
    THEN /\ ElementName(el) = ElementName(other)
         /\ el.id = other.id
         /\ ValueOf(el) = ValueOf(other)
    ELSE IF el.cls \in {"IntegerElement", "UIntegerElement", "StringElement"}
    THEN ElementEq(el, other) /\ ValueOf(el) = ValueOf(other)
    ELSE ElementEq(el, other)

\* the elements compared: any class, one of two ids, one of two offsets, a
\* payload of up to MaxPayload bytes
PayloadBytes == {0, 97, 255}
Payloads == UNION {[1..n -> PayloadBytes] : n \in 0..MaxPayload}
Els ==
    {[cls |-> c, id |-> i, offset |-> o, size |-> Len(p), schema |-> s,
      payload |-> p] :
        c \in ElementClasses, i \in {129, 130}, o \in {0, 4},
        p \in Payloads, s \in Schemas}

\* two elements read with schemas, where schemas of the same element info
\* give an id the same class
EqInit ==
    /\ pair \in {q \in [el : Els, other : Els] :
                   (SchemaEq(q.el.schema, q.other.schema)
                        /\ q.el.id = q.other.id) => q.el.cls = q.other.cls}
    /\ equal = "none"
    /\ schema = EmptySchema
    /\ reply = NoReply

\* el == other
Compare ==
    /\ UNCHANGED <<segVars, fileVars, docVars, codecVars>>
    /\ equal = "none"
    /\ equal' = IF eq(pair.el, pair.other) THEN "True" ELSE "False"
    /\ UNCHANGED <<schema, reply, pair>>

EqNext == Compare

(***************************************************************************)
(* The specifications: Spec runs the segmenter's worker against a caller   *)
(* that may stop it, SpecFile runs the threads that share a                *)
(* ThreadAwareFile, SpecDoc reads a Document, SpecRead reads a Document    *)
(* of a file that may be cut short, SpecSchema declares the elements of a  *)
(* schema, SpecEq compares two elements, SpecCodec calls an encoder and    *)
(* decodes what it returned.                                               *)
(***************************************************************************)
\* the segmenter's variables at rest
SegIdle ==
    /\ prefix = <<>>
    /\ frags = <<>>
    /\ pos = 0
    /\ chunk = <<>>
    /\ chunk_buffer = <<>>
    /\ stop_get_media = FALSE
    /\ pc = "pull"
    /\ parsed = <<>>
    /\ calls = <<>>
    /\ err = "none"
    /\ escaped = "none"
    /\ base = 0
    /\ ended = "no"

\* the file before a constructor call that is not to be looked at
FileIdle == FileInit /\ ctor = [mode |-> {"r", "b"}, passing |-> "positional"]

Init == SegInit /\ FileIdle /\ DocIdle /\ CodecIdle /\ SchemaIdle
Next == SegNext
Spec == Init /\ [][Next]_vars

NextFile == FileNext
InitFile == FileInit /\ SegIdle /\ DocIdle /\ CodecIdle /\ SchemaIdle
SpecFile == InitFile /\ [][NextFile]_vars

NextDoc == DocNext
InitDoc == DocInit /\ SegIdle /\ FileIdle /\ CodecIdle /\ SchemaIdle
SpecDoc == InitDoc /\ [][NextDoc]_vars

NextRead == ReadNext
InitRead == DocInitRead /\ SegIdle /\ FileIdle /\ CodecIdle /\ SchemaIdle
SpecRead == InitRead /\ [][NextRead]_vars

NextSchema == SchemaNext
InitSchema == SchemaInit /\ SegIdle /\ FileIdle /\ DocIdle /\ CodecIdle
SpecSchema == InitSchema /\ [][NextSchema]_vars

NextEq == EqNext
InitEq == EqInit /\ SegIdle /\ FileIdle /\ DocIdle /\ CodecIdle
SpecEq == InitEq /\ [][NextEq]_vars

NextCodec == CodecNext
InitCodec == CodecInit /\ SegIdle /\ FileIdle /\ DocIdle /\ SchemaIdle
SpecCodec == InitCodec /\ [][NextCodec]_vars


(***************************************************************************)
(* The segmenter's claims, under Spec.                                     *)
(***************************************************************************)
FragmentCalls == SelectSeq(calls, LAMBDA c : c.cb = "fragment")
CompleteCalls == SelectSeq(calls, LAMBDA c : c.cb = "complete")
ExceptionCalls == SelectSeq(calls, LAMBDA c : c.cb = "exception")
Delivered == [k \in 1..Len(FragmentCalls) |-> FragmentCalls[k].bytes]

\* the run ended because the iterator was exhausted, and nothing raised
CleanRun == pc = "done" /\ ended = "exhausted" /\ err = "none"

\* C1: a stream of N whole fragments, however it is cut into chunks, gives
\* exactly N on_fragment_arrived calls before the run ends, the k-th call
\* carrying the k-th fragment.
C1_ExactlyNFragmentsInOrder ==
    (CleanRun /\ prefix = <<>>) => Delivered = frags

\* C2: no data is lost: after a run that ends on exhaustion the delivered
\* fragments, concatenated in call order, are the input without the bytes
\* before its first EBML header; and all along, what was appended is what
\* was cut from the buffer followed by what the buffer holds.
C2_NoDataLost ==
    /\ CleanRun => Concat(Delivered) = Concat(frags)
    /\ (pc \in {"pull", "parse", "deliver", "trim"}) =>
           SubSeq(Input, 1, base) \o chunk_buffer = SubSeq(Input, 1, pos)

\* C3: when the iterator is exhausted and nothing raised, the completion
\* callback is called exactly once, with the stream name, after every
\* on_fragment_arrived call, and the exception callback is not called.
C3_CompleteOnExhaustion ==
    CleanRun =>
        /\ Len(CompleteCalls) = 1
        /\ calls[Len(calls)] = [NoCall EXCEPT !.cb = "complete",
                                              !.name = stream_name]
        /\ ExceptionCalls = <<>>

C3_Witness == CleanRun /\ Len(FragmentCalls) >= 2 /\ Len(CompleteCalls) = 1

RunErrors == {"read", "IOError", "TypeError", "callback"}

C5_NoCompletionAfterStop == (ended = "break") => CompleteCalls = <<>>

\* C6: once stop_thread() has set the flag no further chunk is pulled from
\* the iterator, and the chunk in hand at that moment is handled to the end.
C6_NoPullAfterStop ==
    [][/\ stop_get_media => pos' = pos
       /\ (pc \in {"parse", "deliver", "trim"}) => pc' # "complete"]_vars

\* C7: a fragment is delivered only when all its bytes and the start of the
\* next header are in the buffer: the bytes handed over are buffer[f0:f1],
\* f0 and f1 the offsets of the first two root-level EBML headers of the
\* buffer, which holds all of the upstream bytes from the last cut to the
\* last pull.
C7_DeliveredWhenBuffered ==
    \A k \in 1..Len(calls) :
        calls[k].cb = "fragment" =>
            LET c == calls[k]
                buf == SubSeq(Input, c.base + 1, c.pulled)
                hs == get_ebml_header_elements(buf)
            IN /\ hs.st = "ok"
               /\ Len(hs.offsets) >= 2
               /\ c.f0 = hs.offsets[1]
               /\ c.f1 = hs.offsets[2]
               /\ c.bytes = SubSeq(buf, c.f0 + 1, c.f1)
               /\ SubSeq(buf, c.f0 + 1, c.f0 + 4) = EbmlIdBytes
               /\ SubSeq(buf, c.f1 + 1, c.f1 + 4) = EbmlIdBytes

C7_Witness ==
    /\ Len(FragmentCalls) >= 2
    /\ FragmentCalls[2].pulled > FragmentCalls[2].base + FragmentCalls[2].f1 + 5

\* C8: every delivered fragment_bytes is one fragment: an EBML header at
\* offset 0 and no second root-level EBML header.
C8_OneFragmentPerCall ==
    \A k \in 1..Len(calls) :
        calls[k].cb = "fragment" =>
            LET hs == get_ebml_header_elements(calls[k].bytes)
            IN /\ hs.st = "ok"
               /\ hs.offsets = <<0>>
               /\ SubSeq(calls[k].bytes, 1, 4) = EbmlIdBytes

C8_Witness ==
    /\ Len(FragmentCalls) >= 1
    /\ FragmentCalls[1].f0 > 0
    /\ Len(FragmentCalls[1].bytes) = FragmentCalls[1].f1 - FragmentCalls[1].f0

\* C23: when the worker has finished with a chunk and awaits the next one,
\* the buffer holds fewer than two root-level EBML headers: every fragment
\* the chunk completed has been delivered.
C23_BufferDrainedAfterChunk ==
    (pc = "pull" /\ err = "none") =>
        LET hs == get_ebml_header_elements(chunk_buffer)
        IN hs.st = "ok" => Len(hs.offsets) < 2

\* the bytes of the input a fragment call handed over: from, up to
CallFrom(c) == c.base + c.f0
CallUpTo(c) == c.base + c.f1

\* C24: boundary resync: when a fragment is delivered whose header is at
\* offset f0 > 0 of the buffer, the bytes [0, f0) are in no delivered
\* fragment, they leave the buffer with the delivered fragment, the buffer
\* then begins with an EBML header, and every later fragment is delivered
\* from offset 0, right behind the one before it.
C24_BoundaryResync ==
    \A k \in 1..Len(calls) :
        (calls[k].cb = "fragment" /\ calls[k].f0 > 0) =>
            \A c \in {calls[k]} :
                /\ c.bytes = SubSeq(Input, CallFrom(c) + 1, CallUpTo(c))
                /\ \A j \in 1..Len(calls) :
                       calls[j].cb = "fragment" =>
                           \/ CallUpTo(calls[j]) <= c.base
                           \/ CallFrom(calls[j]) >= CallFrom(c)
                /\ base > c.base =>
                       /\ base >= CallUpTo(c)
                       /\ SubSeq(Input, CallUpTo(c) + 1, CallUpTo(c) + 4)
                              = EbmlIdBytes
                       /\ (pc = "pull" /\ base = CallUpTo(c)) =>
                              SubSeq(chunk_buffer, 1, 4) = EbmlIdBytes
                /\ \A j \in (k + 1)..Len(calls) :
                       calls[j].cb = "fragment" =>
                           /\ calls[j].f0 = 0
                           /\ calls[j].base = CallUpTo(calls[j - 1])

C24_Witness ==
    /\ Len(calls) >= 2
    /\ calls[1].cb = "fragment"
    /\ calls[1].f0 > 0
    /\ calls[2].cb = "fragment"
    /\ calls[2].f0 = 0
    /\ pc = "pull"

\* the calls of on_read_stream_complete and on_read_stream_exception
TerminalCalls ==
    SelectSeq(calls, LAMBDA c : c.cb \in {"complete", "exception"})

\* C29: a run makes at most one terminal call (on_read_stream_complete or
\* on_read_stream_exception, not both and not twice), and no call follows a
\* terminal call, whether or not a callback raises.
C29_AtMostOneTerminalCallback ==
    /\ Len(TerminalCalls) <= 1
    /\ \A k \in 1..Len(calls) :
           calls[k].cb \in {"complete", "exception"} => k = Len(calls)

(***************************************************************************)
(* The thread-aware file's claims, under SpecFile.                         *)
(***************************************************************************)
\* the stream a tell() by thread u would ask: its own, or a fresh one
Tell(u) == IF threads[u] # 0 THEN handles[threads[u]] ELSE Opened

\* C9: each thread has its own stream, opened on its first access and used
\* again on the later ones, and a read or seek by one thread leaves the
\* position every other thread observes unchanged.
C9_OwnStreamPerThread ==
    /\ [](\A i, j \in Keys : i # j => threads[i] # threads[j])
    /\ [][\A t \in Idents :
            /\ (tpc[t] \in {"lookup", "fetch"} /\ tpc'[t] = "call") =>
                   IF threads[t] # 0
                   THEN /\ top'[t].fp = threads[t]
                        /\ UNCHANGED <<threads, handles>>
                   ELSE /\ top'[t].fp = Len(handles) + 1
                        /\ handles' = Append(handles, Opened)
                        /\ threads' = [threads EXCEPT ![t] = Len(handles) + 1]
            /\ (tpc[t] = "call" /\ top[t].op \in {"read", "seek"}
                                /\ tpc'[t] = "idle") =>
                   \A u \in Idents \ {t} : Tell(u)' = Tell(u)]_vars

C9_Witness ==
    /\ threads[1] # 0 /\ threads[2] # 0
    /\ ~handles[threads[1]].closed /\ ~handles[threads[2]].closed
    /\ handles[threads[1]].pos # handles[threads[2]].pos
    /\ tres[2] = "ok"

\* C10: close() closes the caller's stream, returns without raising, and
\* leaves no closed stream in the thread map.
C10_CloseReturnsClean ==
    \A t \in Idents :
        (top[t].op = "close" /\ tpc[t] = "cleanup_finally") =>
            /\ handles[top[t].fp].closed
            /\ top[t].exc = "none"
            /\ ~HoldsClosed


\* C11: closed is per thread: True for a thread with no entry in the thread
\* map, and otherwise the closed state of the thread's own stream, whatever
\* the other threads have opened or closed.
C11_ClosedIsPerThread ==
    [][\A t \in Idents :
          (top[t].op = "closed" /\ tpc'[t] = "idle") =>
              tres'[t] = IF threads[t] = 0 THEN "True"
                         ELSE IF handles[threads[t]].closed THEN "True"
                         ELSE "False"]_vars

\* C12: the file is read-only: a constructor call with 'a', 'w' or '+' in
\* its mode raises IOError and opens no stream, and truncate(), write() and
\* writelines() raise IOError and leave every stream as it was.
C12_ReadOnly ==
    [][/\ (made = "new" /\ made' # "new" /\ WriteMode(ctor.mode)) =>
              (made' = "IOError" /\ handles' = <<>>)
       /\ \A t \in Idents :
              (top[t].op \in {"truncate", "write", "writelines"}
                   /\ tpc'[t] = "idle") =>
                  (tres'[t] = "IOError" /\ UNCHANGED <<threads, handles>>)]_vars


\* a thread between the clear of the event and the set in the finally clause
\* of closeAll or cleanup
InCritical(t) ==
    tpc[t] \in {"cleanup_loop", "cleanup_finally",
                "closeAll_close", "closeAll_finally"}

\* a thread anywhere inside closeAll or cleanup
InHousekeeping(t) ==
    \/ InCritical(t)
    \/ tpc[t] \in {"cleanup_wait", "cleanup_clear",
                   "closeAll_wait", "closeAll_clear"}

\* C25: the event guards the housekeeping only: once the file is made, the
\* thread map changes only while a closeAll or a cleanup holds the event
\* cleared, and a read, seek or tell finds the event cleared only because
\* another thread is in its housekeeping, never because of another read,
\* seek or tell.
C25_EventGuardsHousekeepingOnly ==
    [][/\ (made = "ok" /\ threads' # threads) =>
              (~ready /\ \E t \in Idents : InCritical(t))
       /\ \A t \in Idents :
              (tpc'[t] = "wait" /\ ~ready') =>
                  \E u \in Idents \ {t} : InCritical(u)']_vars

\* C30: the housekeeping is exclusive and restores the event: at most one
\* thread is between the clear and the set of closeAll or cleanup, no entry
\* is put into the thread map while a thread is there, and the event is set
\* whenever no thread is inside closeAll or cleanup.
C30_HousekeepingExclusive ==
    [][/\ Cardinality({t \in Idents : InCritical(t)'}) <= 1
       /\ (made = "ok" /\ \E i \in Idents : threads[i] = 0 /\ threads'[i] # 0)
              => ~\E t \in Idents : InCritical(t)
       /\ (made' = "ok" /\ \A t \in Idents : ~InHousekeeping(t)') => ready']_vars

(***************************************************************************)
(* The document's claims, under SpecDoc.                                   *)
(***************************************************************************)
\* C13: Document.close(), and leaving the document's context manager, close
\* the byte source if and only if the Document opened it from a filename; a
\* stream handed in by the caller is never closed.
C13_ClosesOnlyItsOwnSource ==
    /\ [](document.arg = "stream" => ~source.closed)
    /\ [][got'.op \in {"close", "exit"} =>
              source'.closed = (source.closed \/ document.arg = "filename")]_vars

C13_Witness ==
    /\ got.op = "exit"
    /\ document.arg = "filename"
    /\ source.closed
    /\ Len(elements) >= 1

\* where the j-th item of the document starts
ItemOffset(j) ==
    Len(Concat([i \in 1..(j - 1) |-> DocItem(document.items[i])]))
HasUnknown == \E j \in 1..Len(document.items) : document.items[j] = "unknown"

\* C14: an element whose id the schema lacks is no error: it is parsed as an
\* UnknownElement that carries the raw id, and the iteration goes on with the
\* element behind it; Schema.verify raises on data that holds such an element.
C14_UnknownElementIsParsed ==
    /\ iterator.st \in {"none", "running", "done", "ValueError"}
    /\ \A k \in 1..Len(elements) :
           elements[k].id \notin SchemaElements =>
               /\ elements[k].type = "UnknownElement"
               /\ elements[k].id = document.data[elements[k].offset + 1]
    /\ iterator.st = "done" =>
           \A j \in 1..Len(document.items) :
               document.items[j] = "unknown" =>
                   \E k \in 1..Len(elements) :
                       /\ elements[k].offset = ItemOffset(j)
                       /\ elements[k].type = "UnknownElement"
                       /\ elements[k].size = 1
                       /\ j < Len(document.items) =>
                              /\ k < Len(elements)
                              /\ elements[k + 1].offset = ItemOffset(j + 1)
    /\ verified # "none" => (verified = "NameError" <=> HasUnknown)
    /\ verified \in {"none", "ok", "NameError"}

C14_Witness ==
    /\ iterator.st = "done"
    /\ verified = "NameError"
    /\ Len(elements) >= 2
    /\ elements[1].type = "UnknownElement"

\* C15: reading .value any number of times gives what reading it once gives,
\* the payload is decoded from the source at most once, and seeks on the
\* shared stream between the reads do not change the value.
C15_ValueIsCached ==
    /\ [](\A k \in 1..Len(elements) : elements[k].parses <= 1)
    /\ [][got'.op = "value" =>
              LET k == got'.k
                  e == elements[k]
              IN /\ e.cached =>
                        /\ got'.value = e.value
                        /\ ~got'.read
                        /\ UNCHANGED <<source, elements>>
                 /\ elements'[k].cached
                 /\ elements'[k].value = got'.value
                 /\ e.type # "MasterElement" =>
                        got'.value = parse(document.data, e, e.payloadOffset)]_vars

C15_Witness ==
    /\ got.op = "value"
    /\ ~got.read
    /\ elements[got.k].type = "UnknownElement"
    /\ elements[got.k].parses = 1
    /\ got.value = <<7>>
    /\ source.pos = 0

\* the least number of bytes whose 7 bits each hold the size, all ones apart
MinimumLength(val) ==
    CHOOSE L \in 1..8 :
        /\ L < 8 => LessEq(val, SizeEdge(L, -1))
        /\ \A K \in 1..(L - 1) : ~LessEq(val, SizeEdge(K, -1))

\* C16: for every size u in [0, 2^56 - 2], encodeSize(u) is exactly
\* L = getLength(u) bytes, L the least length that holds u, and
\* readElementSize of these bytes returns (u, L).
C16_SizeRoundTrip ==
    (/\ call.fn = "encodeSize"
     /\ call.length = None
     /\ call.val # Unknown
     /\ LessEq(call.val, SizeEdge(8, -1))) =>
        /\ out.st # "none" =>
               /\ out.st = "ok"
               /\ Len(out.bytes) = MinimumLength(call.val)
               /\ getLength(call.val) = MinimumLength(call.val)
        /\ back.st # "none" =>
               back = [st |-> "ok", size |-> call.val,
                       length |-> MinimumLength(call.val)]

C16_Witness ==
    /\ call.fn = "encodeSize"
    /\ call.length = None
    /\ call.val = SizeEdge(8, -1)
    /\ out.bytes = <<1, 255, 255, 255, 255, 255, 255, 254>>
    /\ back.st = "ok"
    /\ back.length = 8

\* C17: for every length L in 1..8, readElementSize of encodeSize(None, L)
\* returns (None, L): the unknown size is recognised and all L bytes of the
\* descriptor are consumed.
C17_UnknownSizeRoundTrip ==
    (/\ call.fn = "encodeSize"
     /\ call.val = Unknown
     /\ call.length \in 1..8
     /\ back.st # "none") =>
        /\ back.st = "ok"
        /\ back.size = Unknown
        /\ back.length = call.length

\* the number of bytes of an unsigned integer without its leading zeros
UIntLen(val) ==
    CHOOSE k \in 1..8 :
        /\ \A i \in 1..(8 - k) : val[i] = 0
        /\ k = 1 \/ val[9 - k] # 0

InIdRange(val) == LessEq(pack(129), val) /\ LessEq(val, pack(536870910))

\* C18 as stated: for every x in [0x81, 0x1FFFFFFE], readElementID of
\* encodeId(x) returns x; and encodeId with a fixed length outside 1..4, or
\* too short for the value, raises ValueError.
C18_IdRoundTrip ==
    call.fn = "encodeId" =>
        /\ (InIdRange(call.val) /\ call.length = None /\ back.st # "none") =>
               (back.st = "ok" /\ back.eid = BigEndian(call.val))
        /\ (/\ call.length # None
            /\ out.st # "none"
            /\ (call.length < 1 \/ call.length > 4
                    \/ UIntLen(call.val) > call.length)) =>
               out.st = "ValueError"

\* x is an id of class k: k bytes, the first one led by the marker of k
IsIdOfClass(x, k) == (2 ^ (7 * k)) <= x /\ x < (2 ^ ((7 * k) + 1))
WellFormedId(x) == \E k \in 1..4 : IsIdOfClass(x, k)
IdClass(x) == CHOOSE k \in 1..4 : IsIdOfClass(x, k)

\* C18, amended: for every well-formed id x of class k in [0x81, 0x1FFFFFFE],
\* encodeId(x) is k bytes and readElementID of them returns (x, k);
\* encodeId with a fixed length outside 1..4, or too short for the value,
\* raises ValueError, and otherwise returns exactly that many bytes.
C18_WellFormedIdRoundTrip ==
    call.fn = "encodeId" =>
        /\ (/\ InIdRange(call.val)
            /\ WellFormedId(BigEndian(call.val))
            /\ call.length = None) =>
               /\ out.st # "none" =>
                      /\ out.st = "ok"
                      /\ Len(out.bytes) = IdClass(BigEndian(call.val))
               /\ back.st # "none" =>
                      back = [st |-> "ok", eid |-> BigEndian(call.val),
                              length |-> IdClass(BigEndian(call.val))]
        /\ (call.length # None /\ out.st # "none") =>
               IF call.length < 1 \/ call.length > 4
                      \/ UIntLen(call.val) > call.length
               THEN out.st = "ValueError"
               ELSE /\ out.st = "ok"
                    /\ Len(out.bytes) = call.length
                    /\ rjust(out.bytes, 8, 0) = call.val

C18_Witness ==
    /\ call.fn = "encodeId"
    /\ call.length = None
    /\ call.val = pack(EBML_ID)
    /\ out.bytes = EbmlIdBytes
    /\ back.st = "ok"
    /\ back.eid = EBML_ID
    /\ back.length = 4

\* the number of bytes of a signed integer without the bytes its sign repeats
IntLen(val) ==
    CHOOSE k \in 1..8 :
        LET Extends(j) ==
                LET low == SubSeq(val, 9 - j, 8)
                IN rjust(low, 8, IF low[1] >= 128 THEN 255 ELSE 0) = val
        IN Extends(k) /\ \A j \in 1..(k - 1) : ~Extends(j)

PayloadEncoders == {"encodeUInt", "encodeInt", "encodeBinary", "encodeString",
                    "encodeUnicode", "encodeFloat", "encodeDate"}

\* the length of the shortest encoding that holds the value of the call
MinimumEncoding ==
    IF call.fn = "encodeUInt" THEN UIntLen(call.val)
    ELSE IF call.fn = "encodeInt" THEN IntLen(call.val)
    ELSE IF call.fn = "encodeUnicode" THEN Len(utf_8(call.val))
    ELSE IF call.fn = "encodeFloat"
         THEN (IF call.val = "0.0" THEN 0 ELSE IF call.val = "1.5" THEN 4 ELSE 8)
    ELSE IF call.fn = "encodeDate" THEN 8
    ELSE Len(call.val)

\* C19 as stated: every payload encoder that takes a fixed length raises,
\* and returns no bytes, when the shortest encoding of the value is longer
\* than the fixed length.
C19_TooSmallLengthFails ==
    (/\ call.fn \in PayloadEncoders
     /\ call.length # None
     /\ out.st # "none"
     /\ MinimumEncoding > call.length) => out.st # "ok"

\* C19, amended: with a fixed length L >= 0, no payload encoder returns
\* anything but L bytes; encodeUInt, encodeInt and encodeBinary raise
\* ValueError when the shortest encoding of the value is longer than L;
\* encodeDate raises for every L but 8 and encodeFloat for every L but 0, 4
\* and 8; encodeString and encodeUnicode never raise: they cut the encoded
\* text to its first L bytes.
C19_FixedLengthIsKept ==
    (/\ call.fn \in PayloadEncoders
     /\ call.length # None
     /\ out.st # "none") =>
        /\ out.st = "ok" => Len(out.bytes) = call.length
        /\ (call.fn \in {"encodeUInt", "encodeInt", "encodeBinary"}
                /\ MinimumEncoding > call.length) => out.st = "ValueError"
        /\ (call.fn = "encodeDate" /\ call.length # 8) => out.st = "ValueError"
        /\ (call.fn = "encodeFloat" /\ call.length \notin {0, 4, 8}) =>
               out.st = "ValueError"
        /\ call.fn \in {"encodeString", "encodeUnicode"} =>
               /\ out.st = "ok"
               /\ \A i \in 1..Min(call.length, MinimumEncoding) :
                      out.bytes[i] =
                          IF call.fn = "encodeUnicode" THEN utf_8(call.val)[i]
                          ELSE IF call.val[i] = 97 THEN 97 ELSE 63
               /\ \A i \in (MinimumEncoding + 1)..call.length : out.bytes[i] = 0

C19_Witness ==
    /\ call.fn = "encodeBinary"
    /\ call.val = <<97, 233>>
    /\ call.length = 1
    /\ out.st = "ValueError"

\* C20: a Void element of declared size N has length N and the value N bytes
\* of 0xFF, and getting the value reads nothing from the source.
C20_VoidValueIsFiller ==
    [][(got'.op = "value" /\ elements[got'.k].type = "VoidElement") =>
           /\ elements[got'.k].size = 2
           /\ got'.value = [i \in 1..elements[got'.k].size |-> 255]
           /\ ~got'.read]_vars

(***************************************************************************)
(* The claims about files that may be cut short, under SpecRead.           *)
(***************************************************************************)
\* the first element of the file, as the constructor reads it
FirstElement == parseElement(document.data, 0, FALSE)
FirstIsEBML == FirstElement.st = "ok" /\ FirstElement.id = EBML_ID
FirstDumps == dump(document.data, FirstElement, FirstElement.tell).st = "ok"

\* the EBML header taken for the document's info, and hidden or shown
HeaderHandled ==
    /\ document.info = dumped(document.data, FirstElement)
    /\ ~document.headers =>
           /\ document.payloadOffset = FirstElement.next
           /\ Len(elements) >= 1 => elements[1].offset = FirstElement.next
    /\ document.headers =>
           /\ document.payloadOffset = 0
           /\ Len(elements) >= 1 =>
                  elements[1].id = EBML_ID /\ elements[1].offset = 0

KidsOf(j) ==
    {i \in (j + 1)..Len(document.items) :
        document.items[i] \in {"cluster", "void"}}
KidId(kind) == IF kind = "cluster" THEN CLUSTER_ID ELSE VOID_ID
KidHeader(kind) == IF kind = "cluster" THEN 5 ELSE 2

\* the children the file holds behind the Segment that is its j-th item
KidsAt(j) ==
    [i \in 1..Cardinality(KidsOf(j)) |->
        [id |-> KidId(document.items[j + i]),
         offset |-> ItemOffset(j + i),
         size |-> Len(DocItem(document.items[j + i]))
                      - KidHeader(document.items[j + i])]]

\* where the first element that is no child of that Segment begins, or the
\* file ends
InvalidStart(j) ==
    Min(ItemOffset(j + Cardinality(KidsOf(j)) + 1), Len(document.data))

\* C27: a master element of unknown size has for size the distance from its
\* payload to the first element that is neither a child of it nor a global
\* element, or to the end of the source; its value is the children before
\* that point and its len their number.
C27_UnknownSizeMaster ==
    \A k \in 1..Len(elements) : \A j \in 1..Len(document.items) :
        (/\ document.items[j] = "open"
         /\ elements[k].id = SEGMENT_ID
         /\ elements[k].offset = ItemOffset(j)) =>
            /\ elements[k].size = InvalidStart(j) - elements[k].payloadOffset
            /\ (got.k = k /\ got.op # "none") =>
                   \/ got.op = "value" /\ got.value = KidsAt(j)
                   \/ got.op = "len" /\ got.value = <<Len(KidsAt(j))>>

\* C28: the iteration over a document ends without an error only where the
\* source ends at the start of an element; no element read reaches past the
\* end of the source; and a failure of the codec other than the end of the
\* source ends the iteration with that failure.
C28_EndOfSource ==
    /\ iterator.st = "done" => iterator.at = Len(document.data)
    /\ \A k \in 1..Len(elements) :
           elements[k].payloadOffset + elements[k].size <= Len(document.data)
    /\ (iterator.st \notin {"none", "running"}
           /\ parseElement(document.data, iterator.at, FALSE).st = "IOError") =>
               iterator.st = "IOError"

(***************************************************************************)
(* The schema's claims, under SpecSchema.                                  *)
(***************************************************************************)
\* the elements declared so far that a declaration with these attributes
\* names, by id or by name
Matched(attribs) ==
    {e \in DOMAIN schema.elements :
        \/ e = Eid(attribs)
        \/ /\ Ename(attribs) \in DOMAIN schema.elementsByName
           /\ schema.elementsByName[Ename(attribs)] = e}

\* every attribute given is an attribute of e's first declaration, with the
\* same text
SameAttributes(e, attribs) ==
    \A k \in DOMAIN attribs :
        /\ k \in DOMAIN schema.elementInfo[e]
        /\ schema.elementInfo[e][k] = attribs[k]

\* C21: a declaration that names an element already declared, by id or by
\* name, with attributes that are those of its first declaration and a kind
\* its class derives from, raises nothing, returns the class declared first
\* and changes only the children of the parent it is declared under; with an
\* attribute changed or another kind it raises and the schema is as before.
C21_Redeclaration ==
    [][(reply'.n # reply.n /\ Matched(reply'.attribs) # {}) =>
           IF \E e \in Matched(reply'.attribs) :
                  /\ SameAttributes(e, reply'.attribs)
                  /\ issubclass(schema.elements[e].base, reply'.baseClass)
           THEN /\ reply'.st = "ok"
                /\ reply'.eclass \in Matched(reply'.attribs)
                /\ SameAttributes(reply'.eclass, reply'.attribs)
                /\ schema' = [schema EXCEPT
                       !.children[ParentOrSelf(reply'.parent)] =
                           @ \cup {reply'.eclass}]
           ELSE /\ reply'.st \in {"TypeError", "KeyError"}
                /\ schema' = schema]_vars

\* an element declared under the schema and again under a master element
C21_Witness ==
    /\ reply.st = "ok"
    /\ reply.n = 2
    /\ reply.parent \in DOMAIN schema.elements
    /\ reply.eclass \in schema.children[Root]
    /\ reply.eclass \in schema.children[reply.parent]
    /\ DOMAIN schema.elementInfo = {reply.eclass}

(***************************************************************************)
(* The claim about the equality of elements, under SpecEq.                 *)
(***************************************************************************)
\* C22: two elements of classes the schema declares are equal exactly when
\* they have the same class, id, offset, size and schema, whatever their
\* values; two Unknown elements are equal exactly when they have the same id
\* and the same value.
C22_ElementEquality ==
    equal # "none" =>
        /\ (pair.el.cls # "UnknownElement" /\ pair.other.cls # "UnknownElement")
               => (equal = "True" <=>
                      /\ pair.el.cls = pair.other.cls
                      /\ pair.el.id = pair.other.id
                      /\ pair.el.offset = pair.other.offset
                      /\ pair.el.size = pair.other.size
                      /\ SchemaEq(pair.el.schema, pair.other.schema))
        /\ (pair.el.cls = "UnknownElement" /\ pair.other.cls = "UnknownElement")
               => (equal = "True" <=>
                      /\ pair.el.id = pair.other.id
                      /\ pair.el.payload = pair.other.payload)

====
